---- MODULE Spec2Model ----
(***************************************************************************)
(* A model of the cleaning engine of the loan-payments EDA pipeline:       *)
(* DataFrameTransform (src/dataframetransformation.py) working on a pandas *)
(* DataFrame.  A DataFrame is a record: its column names in order, the     *)
(* dtype and the cells of every column, and its row index.  Numbers are    *)
(* exact rationals <<numerator, denominator>>; the null marker NaN is      *)
(* <<0, 0>>, and the infinities of a float64 are <<1, 0>> and <<-1, 0>>.   *)
(* The cells of an object column are codes of its labels, in the order of  *)
(* the labels.                                                             *)
(*                                                                         *)
(*   df           the DataFrame self.df of the DataFrameTransform          *)
(*   table        the DataFrame the driver passed to DataFrameTransform    *)
(*   same_object  whether self.df is still that object                     *)
(*   prev         self.df before the last call                             *)
(*   op           the last call: its name, arguments and results           *)
(*                                                                         *)
(*   pc           the driver that is running and its next statement        *)
(*   loan_payments  the table loan_payments of the database                *)
(*   files        the CSV files the drivers write and read                 *)
(*                                                                         *)
(* Each stage has its own specification (SpecNulls, SpecOutliers, SpecCorr,*)
(* SpecSkew, ...), starting from the tables that stage is examined on; no  *)
(* driver runs in them.  SpecMain runs the drivers.                        *)
(***************************************************************************)
EXTENDS Integers, Sequences, FiniteSets, TLC

VARIABLES df, table, same_object, prev, op, pc, loan_payments, files

vars == <<df, table, same_object, prev, op, pc, loan_payments, files>>

(***************************************************************************)
(* Bounds of the model.                                                    *)
(***************************************************************************)
MaxRows == 4

MaxOutlierRows == 5

MaxCorrRows == 3

MaxSkewRows == 4

MaxSessionRows == 4

MaxTextLen == 3

MaxTypeRows == 2

MaxLoanRows == 2

(***************************************************************************)
(* Exact rational arithmetic, with NaN and the two infinities.             *)
(***************************************************************************)
NaN == <<0, 0>>

Inf == <<1, 0>>

NegInf == <<-1, 0>>

Abs(x) == IF x < 0 THEN -x ELSE x

RECURSIVE Gcd(_, _)
Gcd(a, b) == IF b = 0 THEN a ELSE Gcd(b, a % b)

Norm(n, d) ==
    IF d = 0 THEN (IF n > 0 THEN Inf ELSE IF n < 0 THEN NegInf ELSE NaN)
    ELSE LET g == Gcd(Abs(n), Abs(d))
             s == IF d < 0 THEN -1 ELSE 1
         IN  <<(s * n) \div g, (s * d) \div g>>

Num(k) == <<k, 1>>

\* isnull(): an infinity is not a null
IsNull(v) == v = NaN

IsInf(v) == v \in {Inf, NegInf}

\* inf + inf is inf, inf + (-inf) is NaN
RAdd(x, y) == IF IsNull(x) \/ IsNull(y) THEN NaN
              ELSE IF IsInf(x) /\ IsInf(y) THEN (IF x = y THEN x ELSE NaN)
              ELSE IF IsInf(x) THEN x
              ELSE IF IsInf(y) THEN y
              ELSE Norm(x[1] * y[2] + y[1] * x[2], x[2] * y[2])

RNeg(x) == <<-x[1], x[2]>>

RSub(x, y) == RAdd(x, RNeg(y))

RMul(x, y) == IF IsNull(x) \/ IsNull(y) THEN NaN
              ELSE Norm(x[1] * y[1], x[2] * y[2])

RAbs(x) == <<Abs(x[1]), x[2]>>

\* Comparisons with NaN are false, as in IEEE arithmetic.
RLt(x, y) ==
    /\ ~IsNull(x) /\ ~IsNull(y) /\ x # y
    /\ IF IsInf(x) \/ IsInf(y) THEN x = NegInf \/ y = Inf
       ELSE x[1] * y[2] < y[1] * x[2]

RLe(x, y) == ~IsNull(x) /\ ~IsNull(y) /\ (x = y \/ RLt(x, y))

RGt(x, y) == RLt(y, x)

RGe(x, y) == RLe(y, x)

(***************************************************************************)
(* Sequences of cells.                                                     *)
(***************************************************************************)
RECURSIVE SeqsOfLen(_, _)
SeqsOfLen(S, n) ==
    IF n = 0 THEN {<<>>}
    ELSE {Append(s, x) : s \in SeqsOfLen(S, n - 1), x \in S}

Range(s) == {s[i] : i \in 1..Len(s)}

NonNull(s) == SelectSeq(s, LAMBDA v : ~IsNull(v))

NullCount(s) == Len(s) - Len(NonNull(s))

RECURSIVE Sum(_)
Sum(s) == IF Len(s) = 0 THEN Num(0) ELSE RAdd(s[1], Sum(Tail(s)))

RECURSIVE Insert(_, _)
Insert(v, s) ==
    IF Len(s) = 0 THEN <<v>>
    ELSE IF RLe(v, s[1]) THEN <<v>> \o s
    ELSE <<s[1]>> \o Insert(v, Tail(s))

RECURSIVE Sorted(_)
Sorted(s) == IF Len(s) = 0 THEN <<>> ELSE Insert(s[1], Sorted(Tail(s)))

(***************************************************************************)
(* The DataFrame.                                                          *)
(***************************************************************************)
DataFrame(cols, dtypes, cells, idx) ==
    [columns |-> cols,
     dtype   |-> [c \in Range(cols) |-> dtypes[c]],
     data    |-> [c \in Range(cols) |-> cells[c]],
     index   |-> idx]

NRows(d) == Len(d.index)

HasColumn(d, c) == c \in Range(d.columns)

\* dtype in ['float64', 'int64']
IsFloatOrInt(d, c) == d.dtype[c] \in {"float64", "int64"}

\* DataFrame.drop(columns=...)
DropColumns(d, drop) ==
    DataFrame(SelectSeq(d.columns, LAMBDA c : c \notin drop), d.dtype, d.data, d.index)

\* df[col] = series
SetColumn(d, c, series) ==
    [d EXCEPT !.data[c] = series]

\* (df.isnull().sum() / len(df)) * 100 for one column; 0/0 is NaN.
NullPercentage(d, c) == Norm(100 * NullCount(d.data[c]), NRows(d))

(***************************************************************************)
(* drop_nulls_over_threshold                                               *)
(***************************************************************************)
\* null_percentages[null_percentages > threshold].index.tolist(), and the
\* variant that compares with >=
ColumnsToDropGe(d, threshold) ==
    {c \in Range(d.columns) : RGe(NullPercentage(d, c), Num(threshold))}

ColumnsToDrop(d, threshold) ==
    {c \in Range(d.columns) : RGt(NullPercentage(d, c), Num(threshold))}

drop_nulls_over_threshold(d, threshold) ==
    DropColumns(d, ColumnsToDrop(d, threshold))

(***************************************************************************)
(* impute_missing_values                                                   *)
(***************************************************************************)
\* x / y in floating point: a division by zero gives an infinity or NaN (a
\* warning, not an exception), inf / inf is NaN.
RDiv(x, y) ==
    IF IsNull(x) \/ IsNull(y) \/ (IsInf(x) /\ IsInf(y)) THEN NaN
    ELSE IF IsInf(y) THEN Num(0)
    ELSE IF IsInf(x) THEN (IF y[1] < 0 THEN RNeg(x) ELSE x)
    ELSE Norm(x[1] * y[2], x[2] * y[1])

\* Series.mean(): nulls are skipped; NaN when no value is left.
Mean(s) ==
    LET x == NonNull(s)
    IN  IF Len(x) = 0 THEN NaN ELSE RDiv(Sum(x), Num(Len(x)))

\* Series.median(): nulls are skipped; NaN when no value is left.
Median(s) ==
    LET x == Sorted(NonNull(s))
        n == Len(x)
    IN  IF n = 0 THEN NaN
        ELSE IF n % 2 = 1 THEN x[(n + 1) \div 2]
        ELSE RDiv(RAdd(x[n \div 2], x[n \div 2 + 1]), Num(2))

Count(s, v) == Cardinality({i \in 1..Len(s) : s[i] = v})

RECURSIVE SortedValues(_)
SortedValues(S) ==
    IF S = {} THEN <<>>
    ELSE LET m == CHOOSE v \in S : \A w \in S : RLe(v, w)
         IN  <<m>> \o SortedValues(S \ {m})

\* Series.mode(): the most frequent non-null values, sorted ascending
\* (ModeLast: the variant that leaves only the last of them).
ModeLast(s) ==
    LET x == NonNull(s)
        m == SortedValues({v \in Range(x) : \A w \in Range(x) : Count(x, v) >= Count(x, w)})
    IN  IF Len(m) = 0 THEN m ELSE <<m[Len(m)]>>

Mode(s) ==
    LET x == NonNull(s)
    IN  SortedValues({v \in Range(x) : \A w \in Range(x) : Count(x, v) >= Count(x, w)})

\* Series.fillna(value): fillna(NaN) leaves the nulls in place
\* (fillna_first_only: the variant fillna(value, limit=1)).
fillna_first_only(s, value) ==
    LET nulls == {i \in 1..Len(s) : IsNull(s[i])}
    IN  [i \in 1..Len(s) |->
            IF i \in nulls /\ \A j \in nulls : i <= j THEN value ELSE s[i]]

fillna(s, value) ==
    [i \in 1..Len(s) |-> IF IsNull(s[i]) THEN value ELSE s[i]]

\* abs(mean_value - median_value) / mean_value < 0.1
\* (WithinTenPercentLe: the variant with <=)
WithinTenPercentLe(mean_value, median_value) ==
    RLe(RDiv(RAbs(RSub(mean_value, median_value)), mean_value), <<1, 10>>)

WithinTenPercent(mean_value, median_value) ==
    RLt(RDiv(RAbs(RSub(mean_value, median_value)), mean_value), <<1, 10>>)

\* The body of the loop for one column: the DataFrame after it, and the
\* exception it raised ("" when none).
ImputeColumn(d, col) ==
    LET s == d.data[col]
    IN  IF \A i \in 1..Len(s) : ~IsNull(s[i])
        THEN [df |-> d, raised |-> ""]
        ELSE IF IsFloatOrInt(d, col)
        THEN LET mean_value == Mean(s)
                 median_value == Median(s)
             IN  IF WithinTenPercent(mean_value, median_value)
                 THEN [df |-> SetColumn(d, col, fillna(s, mean_value)), raised |-> ""]
                 ELSE [df |-> SetColumn(d, col, fillna(s, median_value)), raised |-> ""]
        ELSE IF Len(Mode(s)) = 0
        THEN [df |-> d, raised |-> "KeyError"]
        ELSE [df |-> SetColumn(d, col, fillna(s, Mode(s)[1])), raised |-> ""]

\* for col in self.df.columns, from the i-th column on; an exception ends
\* the loop and keeps what the earlier iterations wrote.
RECURSIVE ImputeFrom(_, _)
ImputeFrom(d, i) ==
    IF i > Len(d.columns) THEN [df |-> d, raised |-> ""]
    ELSE LET r == ImputeColumn(d, d.columns[i])
         IN  IF r.raised # "" THEN r ELSE ImputeFrom(r.df, i + 1)

impute_missing_values(d) == ImputeFrom(d, 1)

(***************************************************************************)
(* remove_outliers                                                         *)
(***************************************************************************)
\* pd.api.types.is_numeric_dtype, on the dtypes of this model
is_numeric_dtype(d, c) == d.dtype[c] \in {"float64", "int64"}

\* Series.quantile(q), q = <<a, b>>: linear interpolation between the two
\* order statistics around position (n - 1) * q of the non-null values.
quantile(s, q) ==
    LET x == Sorted(NonNull(s))
        n == Len(x)
        k == ((n - 1) * q[1]) \div q[2]
        r == ((n - 1) * q[1]) % q[2]
    IN  IF n = 0 THEN NaN
        ELSE IF r = 0 THEN x[k + 1]
        ELSE RAdd(x[k + 1], RMul(<<r, q[2]>>, RSub(x[k + 2], x[k + 1])))

lower_bound(s) ==
    LET Q1 == quantile(s, <<1, 4>>)
        Q3 == quantile(s, <<3, 4>>)
        IQR == RSub(Q3, Q1)
    IN  RSub(Q1, RMul(<<3, 2>>, IQR))

\* Q3 + 1.5 * IQR (upper_bound_one_iqr: the variant Q3 + IQR)
upper_bound_one_iqr(s) ==
    LET Q1 == quantile(s, <<1, 4>>)
        Q3 == quantile(s, <<3, 4>>)
        IQR == RSub(Q3, Q1)
    IN  RAdd(Q3, IQR)

upper_bound(s) ==
    LET Q1 == quantile(s, <<1, 4>>)
        Q3 == quantile(s, <<3, 4>>)
        IQR == RSub(Q3, Q1)
    IN  RAdd(Q3, RMul(<<3, 2>>, IQR))

\* (self.df[column] >= lower_bound) & (self.df[column] <= upper_bound)
\* (WithinBoundsStrict: the variant with > and <)
WithinBoundsStrict(v, lo, hi) == RGt(v, lo) /\ RLt(v, hi)

WithinBounds(v, lo, hi) == RGe(v, lo) /\ RLe(v, hi)

\* df[mask]: the rows at the positions in keep, in order, as a new DataFrame
SelectRows(d, keep) ==
    LET pos == SelectSeq([i \in 1..NRows(d) |-> i], LAMBDA i : i \in keep)
    IN  [columns |-> d.columns,
         dtype   |-> d.dtype,
         data    |-> [c \in Range(d.columns) |-> [j \in 1..Len(pos) |-> d.data[c][pos[j]]]],
         index   |-> [j \in 1..Len(pos) |-> d.index[pos[j]]]]

\* The DataFrame self.df refers to after the call, whether it is a new
\* object, and the exception raised ("" when none).
remove_outliers(d, column) ==
    IF ~HasColumn(d, column)
    THEN [df |-> d, rebound |-> FALSE, raised |-> "KeyError"]
    ELSE IF is_numeric_dtype(d, column)
    THEN LET s  == d.data[column]
             lo == lower_bound(s)
             hi == upper_bound(s)
         IN  [df |-> SelectRows(d, {i \in 1..NRows(d) : WithinBounds(s[i], lo, hi)}),
              rebound |-> TRUE, raised |-> ""]
    ELSE [df |-> d, rebound |-> FALSE, raised |-> ""]

(***************************************************************************)
(* identify_highly_correlated, remove_highly_correlated_columns            *)
(***************************************************************************)
\* self.df.select_dtypes(include=['float64', 'int64']).columns
numeric_columns(d) == SelectSeq(d.columns, LAMBDA c : IsFloatOrInt(d, c))

RECURSIVE SumInts(_)
SumInts(s) == IF Len(s) = 0 THEN 0 ELSE s[1] + SumInts(Tail(s))

RECURSIVE CommonDenominator(_)
CommonDenominator(s) ==
    IF Len(s) = 0 THEN 1
    ELSE LET m == CommonDenominator(Tail(s))
         IN  (s[1][2] * m) \div Gcd(s[1][2], m)

\* The non-null cells s as whole numbers, all multiplied by their common
\* denominator (Pearson's r does not change when a column is multiplied by
\* a positive number).
Scaled(s) ==
    LET m == CommonDenominator(s)
    IN  [i \in 1..Len(s) |-> s[i][1] * (m \div s[i][2])]

\* DataFrame.corr().abs() > threshold for one pair of columns: Pearson's r
\* over the rows where both cells are non-null.  With n such rows,
\* r = cov / sqrt(vx * vy) for cov = n*Sxy - Sx*Sy, vx = n*Sxx - Sx*Sx and
\* vy = n*Syy - Sy*Sy; r is NaN when vx or vy is zero, and NaN > threshold
\* is false.  |r| > threshold is decided on the squares
\* (correlation_at_least: the variant with >=).
correlation_at_least(d, c1, c2, threshold) ==
    LET both == SelectSeq([i \in 1..NRows(d) |-> i],
                          LAMBDA i : ~IsNull(d.data[c1][i]) /\ ~IsNull(d.data[c2][i]))
        n   == Len(both)
        x   == Scaled([j \in 1..n |-> d.data[c1][both[j]]])
        y   == Scaled([j \in 1..n |-> d.data[c2][both[j]]])
        cov == n * SumInts([j \in 1..n |-> x[j] * y[j]]) - SumInts(x) * SumInts(y)
        vx  == n * SumInts([j \in 1..n |-> x[j] * x[j]]) - SumInts(x) * SumInts(x)
        vy  == n * SumInts([j \in 1..n |-> y[j] * y[j]]) - SumInts(y) * SumInts(y)
    IN  /\ vx # 0 /\ vy # 0
        /\ \/ threshold[1] < 0
           \/ cov * cov * threshold[2] * threshold[2]
                 >= threshold[1] * threshold[1] * vx * vy

correlation_above(d, c1, c2, threshold) ==
    LET both == SelectSeq([i \in 1..NRows(d) |-> i],
                          LAMBDA i : ~IsNull(d.data[c1][i]) /\ ~IsNull(d.data[c2][i]))
        n   == Len(both)
        x   == Scaled([j \in 1..n |-> d.data[c1][both[j]]])
        y   == Scaled([j \in 1..n |-> d.data[c2][both[j]]])
        cov == n * SumInts([j \in 1..n |-> x[j] * y[j]]) - SumInts(x) * SumInts(y)
        vx  == n * SumInts([j \in 1..n |-> x[j] * x[j]]) - SumInts(x) * SumInts(x)
        vy  == n * SumInts([j \in 1..n |-> y[j] * y[j]]) - SumInts(y) * SumInts(y)
    IN  /\ vx # 0 /\ vy # 0
        /\ \/ threshold[1] < 0
           \/ cov * cov * threshold[2] * threshold[2]
                 > threshold[1] * threshold[1] * vx * vy

\* for j in range(first, len(columns)): the pairs (columns[i], columns[j])
\* appended for one i
RECURSIVE PairsOfRow(_, _, _, _, _)
PairsOfRow(d, columns, i, j, threshold) ==
    IF j > Len(columns) THEN <<>>
    ELSE (IF correlation_above(d, columns[i], columns[j], threshold)
          THEN <<<<columns[i], columns[j]>>>> ELSE <<>>)
         \o PairsOfRow(d, columns, i, j + 1, threshold)

\* for i in range(len(columns)): for j in range(i + 1, len(columns))
\* (PairsSkippingNeighbour: the variant with range(i + 2, len(columns)))
RECURSIVE PairsSkippingNeighbour(_, _, _, _)
PairsSkippingNeighbour(d, columns, i, threshold) ==
    IF i > Len(columns) THEN <<>>
    ELSE PairsOfRow(d, columns, i, i + 2, threshold)
         \o PairsSkippingNeighbour(d, columns, i + 1, threshold)

RECURSIVE PairsFrom(_, _, _, _)
PairsFrom(d, columns, i, threshold) ==
    IF i > Len(columns) THEN <<>>
    ELSE PairsOfRow(d, columns, i, i + 1, threshold)
         \o PairsFrom(d, columns, i + 1, threshold)

identify_highly_correlated(d, threshold) ==
    PairsFrom(d, numeric_columns(d), 1, threshold)

\* for col1, col2 in correlated_columns: columns_to_remove.add(col2)
\* (first_columns: the variant add(col1))
first_columns(pairs) == {pair[1] : pair \in Range(pairs)}

columns_to_remove(pairs) == {pair[2] : pair \in Range(pairs)}

\* The reduced DataFrame (self.df, changed in place) and the removal set,
\* with the pairs identify_highly_correlated reported.
remove_highly_correlated_columns(d, threshold) ==
    LET correlated_columns == identify_highly_correlated(d, threshold)
        removed == columns_to_remove(correlated_columns)
    IN  [df |-> DropColumns(d, removed), removed |-> removed,
         pairs |-> correlated_columns]

(***************************************************************************)
(* transform_column, find_best_transformation                              *)
(***************************************************************************)
\* np.log1p and np.sqrt of a cell, in hundredths (exact for sqrt of 0, 1
\* and 4).  No call reaches them: transform_column returns before them.
log1p(v) ==
    CASE v = Num(0) -> Num(0)
      [] v = Num(1) -> <<69, 100>>
      [] v = Num(4) -> <<161, 100>>
      [] OTHER -> NaN

sqrt(v) ==
    CASE v = Num(0) -> Num(0)
      [] v = Num(1) -> Num(1)
      [] v = Num(4) -> Num(2)
      [] OTHER -> NaN

\* The column returned, the exception raised ("" when none) and whether the
\* failure line was printed.  `return self.df[col]` is at the indentation
\* of the `if`, so every call returns the column as it is and the dispatch
\* on the method below it never runs.
transform_column(d, col, method) ==
    IF ~HasColumn(d, col)
    THEN [series |-> <<>>, raised |-> "KeyError", failed |-> FALSE]
    ELSE [series |-> d.data[col], raised |-> "", failed |-> ~IsFloatOrInt(d, col)]

\* Series.skew() squared: NaN with fewer than three values, 0 for a
\* constant column, else G1^2 = n(n-1)/(n-2)^2 * m3^2 / m2^3, computed as
\* n(n-1) * M3^2 / ((n-2)^2 * M2^3) with M2 = n*Sxx - Sx^2 and
\* M3 = n^2*Sxxx - 3n*Sx*Sxx + 2*Sx^3 over the scaled non-null cells.
skew_squared(s) ==
    LET x  == Scaled(NonNull(s))
        n  == Len(x)
        s1 == SumInts(x)
        s2 == SumInts([i \in 1..n |-> x[i] * x[i]])
        s3 == SumInts([i \in 1..n |-> x[i] * x[i] * x[i]])
        M2 == n * s2 - s1 * s1
        M3 == n * n * s3 - 3 * n * s1 * s2 + 2 * s1 * s1 * s1
    IN  IF n < 3 THEN NaN
        ELSE IF M2 = 0 THEN Num(0)
        ELSE RMul(Norm(n * (n - 1), (n - 2) * (n - 2)),
                  RMul(Norm(M3, M2), RMul(Norm(M3, M2), Norm(1, M2))))

\* abs(skewness) < abs(best_skew), best_skew being np.inf until a method
\* is taken
AbsSkewLess(skewness, best) ==
    ~IsNull(skewness) /\ (best.inf \/ RLt(skewness, best.squared))

\* for method in transformations, from the i-th method on
RECURSIVE BestFrom(_, _, _, _, _, _)
BestFrom(d, col, transformations, i, best_method, best) ==
    IF i > Len(transformations)
    THEN [method |-> best_method, series |-> best.col, raised |-> ""]
    ELSE LET transformed_col == transform_column(d, col, transformations[i]).series
             skewness == skew_squared(transformed_col)
         IN  IF AbsSkewLess(skewness, best)
             THEN BestFrom(d, col, transformations, i + 1, transformations[i],
                           [inf |-> FALSE, squared |-> skewness, col |-> transformed_col])
             ELSE BestFrom(d, col, transformations, i + 1, best_method, best)

\* Series.skew() of an object column converts its cells to float: a text
\* label makes it raise (TypeError), a column of nulls only has skewness NaN.
find_best_transformation(d, col) ==
    IF ~HasColumn(d, col)
    THEN [method |-> "None", series |-> <<>>, raised |-> "KeyError"]
    ELSE IF ~IsFloatOrInt(d, col) /\ Len(NonNull(d.data[col])) > 0
    THEN [method |-> "None", series |-> <<>>, raised |-> "TypeError"]
    ELSE BestFrom(d, col, <<"log", "sqrt", "boxcox">>, 1, "None",
                  [inf |-> TRUE, squared |-> NaN, col |-> d.data[col]])

(***************************************************************************)
(* identify_skewed_columns, transform_skewed_columns                       *)
(***************************************************************************)
\* (skewed_columns < -skew_threshold) | (skewed_columns > skew_threshold)
\* for the skewness of one column, decided on its square: with a negative
\* threshold every skewness that is a number passes one of the two tests.
ExceedsSkewThreshold(s, skew_threshold) ==
    LET squared == skew_squared(s)
    IN  IF skew_threshold < 0 THEN ~IsNull(squared)
        ELSE RGt(squared, Num(skew_threshold * skew_threshold))

\* The names of the float64 and int64 columns whose skewness is outside the
\* threshold, in column order.
identify_skewed_columns(d, skew_threshold) ==
    SelectSeq(numeric_columns(d),
              LAMBDA c : ExceedsSkewThreshold(d.data[c], skew_threshold))

\* for col in skewed_columns, from the i-th on: the column is assigned the
\* column find_best_transformation returned and the line
\* "Column '<col>' transformed using <best_method> method" is printed.
RECURSIVE TransformFrom(_, _, _, _)
TransformFrom(d, skewed_columns, i, log) ==
    IF i > Len(skewed_columns) THEN [df |-> d, log |-> log, raised |-> ""]
    ELSE LET col == skewed_columns[i]
             r   == find_best_transformation(d, col)
         IN  IF r.raised # "" THEN [df |-> d, log |-> log, raised |-> r.raised]
             ELSE TransformFrom(SetColumn(d, col, r.series), skewed_columns, i + 1,
                                Append(log, <<col, r.method>>))

transform_skewed_columns(d, skew_threshold) ==
    TransformFrom(d, identify_skewed_columns(d, skew_threshold), 1, <<>>)

(***************************************************************************)
(* The record of the last call made on the DataFrameTransform.             *)
(***************************************************************************)
NoCall ==
    [name |-> "init", col |-> "", threshold |-> NaN, dropped |-> {},
     pairs |-> <<>>, method |-> "", series |-> <<>>, raised |-> "",
     log |-> <<>>, columns |-> <<>>, result |-> <<>>, after_drop |-> NaN]

\* No DataFrame: what df is before a driver has loaded the table.
NoTable == DataFrame(<<>>, <<>>, <<>>, <<>>)

\* A file that has not been written.
NoFile == [written |-> FALSE, content |-> NoTable]

\* No driver is running: the calls are made on the object directly.
NoDriver ==
    /\ pc = [program |-> "", at |-> 0]
    /\ loan_payments = NoTable
    /\ files = [name \in {} |-> NoFile]

\* A call that mutates the object self.df refers to.
InPlace(new, call) ==
    /\ df' = new
    /\ table' = IF same_object THEN new ELSE table
    /\ same_object' = same_object
    /\ prev' = df
    /\ op' = call
    /\ UNCHANGED <<pc, loan_payments, files>>

\* A call that binds self.df to a new DataFrame object: the object the
\* driver holds is left as it was.
Rebind(new, call) ==
    /\ df' = new
    /\ table' = table
    /\ same_object' = FALSE
    /\ prev' = df
    /\ op' = call
    /\ UNCHANGED <<pc, loan_payments, files>>

Thresholds == {0, 25, 50, 100}

\* The column names a call is made with: those of the table, and one the
\* table does not have.
ColumnArguments == Range(df.columns) \cup {"absent"}

Call_drop_nulls_over_threshold ==
    \E t \in Thresholds :
        InPlace(drop_nulls_over_threshold(df, t),
                [NoCall EXCEPT !.name = "drop_nulls_over_threshold",
                               !.threshold = Num(t),
                               !.dropped = ColumnsToDrop(df, t)])

\* after_drop: the threshold of the drop_nulls_over_threshold call that
\* came right before this call, NaN when another call or none did.
Call_impute_missing_values ==
    LET r == impute_missing_values(df)
    IN  InPlace(r.df, [NoCall EXCEPT !.name = "impute_missing_values",
                                     !.raised = r.raised,
                                     !.after_drop =
                                         IF op.name = "drop_nulls_over_threshold"
                                         THEN op.threshold ELSE NaN])

(***************************************************************************)
(* Tables the null-handling stages start from: every one-column table of   *)
(* at most MaxRows rows over the sample values (and, for the float64       *)
(* column, the infinities), every two-column table whose cells are a value *)
(* or a null, and the two scenario tables of the specification.            *)
(***************************************************************************)
NumValues == {-3, 0, 9, 12}

CatValues == {1, 2}

Cells(S) == {Num(k) : k \in S} \cup {NaN}

Index(n) == [i \in 1..n |-> i - 1]

OneColumn(c, t, s) ==
    DataFrame(<<c>>, [x \in {c} |-> t], [x \in {c} |-> s], Index(Len(s)))

MixedDtypes == [a |-> "float64", b |-> "object", c |-> "float64"]

TwoColumns(x, y) ==
    DataFrame(<<"a", "b">>, MixedDtypes, [a |-> x, b |-> y], Index(Len(x)))

ScenarioSixtyPercent ==
    DataFrame(<<"a", "b", "c">>, MixedDtypes,
              [a |-> <<NaN, NaN, NaN, NaN, NaN, NaN, Num(1), Num(1), Num(1), Num(1)>>,
               b |-> <<NaN, NaN, NaN, NaN, NaN, Num(1), Num(1), Num(1), Num(1), Num(1)>>,
               c |-> <<Num(1), Num(1), Num(1), Num(1), Num(1), Num(1), Num(1), Num(1), Num(1), NaN>>],
              Index(10))

ScenarioMode ==
    DataFrame(<<"b">>, [b |-> "object"],
              [b |-> <<Num(1), Num(1), Num(2), Num(2), Num(2), NaN>>], Index(6))

\* d is one of the tables the null-handling stages start from.
IsNullTable(d) ==
    \/ \E n \in 0..MaxRows :
          \E s \in SeqsOfLen(Cells(NumValues) \cup {Inf, NegInf}, n) :
             d = OneColumn("a", "float64", s)
    \/ \E n \in 0..MaxRows :
          \E s \in SeqsOfLen(Cells(CatValues), n) : d = OneColumn("b", "object", s)
    \/ \E n \in 0..MaxRows :
          \E x \in SeqsOfLen(Cells({1}), n), y \in SeqsOfLen(Cells({1}), n) :
             d = TwoColumns(x, y)
    \/ d \in {ScenarioSixtyPercent, ScenarioMode}

InitNulls ==
    /\ IsNullTable(df)
    /\ table = df
    /\ same_object = TRUE
    /\ prev = df
    /\ op = NoCall
    /\ NoDriver

NextNulls ==
    \/ Call_drop_nulls_over_threshold
    \/ Call_impute_missing_values

SpecNulls == InitNulls /\ [][NextNulls]_vars
(***************************************************************************)
(* Properties of the null-handling stages.                                 *)
(***************************************************************************)
Nulls(s) == Cardinality({i \in 1..Len(s) : s[i] = NaN})

\* The null percentage of column c of d is above t: nulls / rows * 100 > t.
OverThreshold(d, c, t) ==
    NRows(d) > 0 /\ 100 * Nulls(d.data[c]) * t[2] > t[1] * NRows(d)

DroppedColumns == Range(prev.columns) \ Range(df.columns)

Completed(name) == op.name = name /\ op.raised = ""

\* C7: imputation is idempotent: when impute_missing_values has completed,
\* running it again completes and changes no cell of the table.
C7_ImputeIdempotent ==
    Completed("impute_missing_values") =>
        impute_missing_values(df) = [df |-> df, raised |-> ""]

C7_Witness ==
    /\ Completed("impute_missing_values")
    /\ df # prev
    /\ \E c \in Range(prev.columns) : Nulls(prev.data[c]) > 1

\* |mean - median| / mean is below 0.1, by cross-multiplication: for a
\* positive mean 10 * |mean - median| < mean; for a negative mean the
\* quotient is not positive, hence below 0.1; for a zero or undefined mean
\* the quotient is no number below 0.1, and the same for an infinite mean.
BelowTenPercent(m, md) ==
    /\ m[2] # 0 /\ md[2] # 0
    /\ \/ m[1] > 0 /\ 10 * Abs(m[1] * md[2] - md[1] * m[2]) * m[2] < m[1] * m[2] * md[2]
       \/ m[1] < 0

ExpectedFill(s) ==
    IF BelowTenPercent(Mean(s), Median(s)) THEN Mean(s) ELSE Median(s)

FilledWith(c, v) ==
    \A i \in 1..NRows(prev) :
        df.data[c][i] = IF prev.data[c][i] = NaN THEN v ELSE prev.data[c][i]

\* C8: impute_missing_values fills the nulls of each numeric column with the
\* column mean when |mean - median| / mean is below 0.1 and with the median
\* otherwise; a zero mean gives the median and no division error; non-null
\* cells and columns without nulls are unchanged.
C8_NumericImputation ==
    op.name = "impute_missing_values" =>
        /\ op.raised \in {"", "KeyError"}
        /\ op.raised = "" =>
              /\ df.columns = prev.columns /\ df.index = prev.index /\ df.dtype = prev.dtype
              /\ \A c \in Range(prev.columns) :
                    /\ Nulls(prev.data[c]) = 0 => df.data[c] = prev.data[c]
                    /\ IsFloatOrInt(prev, c) =>
                          /\ FilledWith(c, ExpectedFill(prev.data[c]))
                          /\ Mean(prev.data[c]) = Num(0) =>
                                FilledWith(c, Median(prev.data[c]))

C8_Witness ==
    /\ Completed("impute_missing_values")
    /\ \E c \in Range(prev.columns) :
          /\ IsFloatOrInt(prev, c)
          /\ Nulls(prev.data[c]) > 0
          /\ Mean(prev.data[c]) # Median(prev.data[c])
          /\ RGt(Mean(prev.data[c]), Num(0))
          /\ FilledWith(c, Mean(prev.data[c]))

\* v is the most frequent value of s, the smallest one among equally
\* frequent values.
MostFrequent(s, v) ==
    /\ v # NaN
    /\ v \in Range(s)
    /\ \A w \in Range(s) \ {NaN} :
          \/ Count(s, v) > Count(s, w)
          \/ Count(s, v) = Count(s, w) /\ RLe(v, w)

\* C9: impute_missing_values fills every null of a non-numeric column with
\* the single most frequent value of the column, the first in sorted order
\* when several values tie; [1,1,2,2,2,None] becomes [1,1,2,2,2,2].
C9_ModeImputation ==
    Completed("impute_missing_values") =>
        \A c \in Range(prev.columns) :
            ~IsFloatOrInt(prev, c) /\ Nulls(prev.data[c]) > 0 =>
                /\ \E v \in Range(prev.data[c]) :
                      MostFrequent(prev.data[c], v) /\ FilledWith(c, v)
                /\ prev.data[c] = <<Num(1), Num(1), Num(2), Num(2), Num(2), NaN>> =>
                      df.data[c] = <<Num(1), Num(1), Num(2), Num(2), Num(2), Num(2)>>

C9_Witness ==
    /\ Completed("impute_missing_values")
    /\ \E c \in Range(prev.columns) :
          /\ ~IsFloatOrInt(prev, c)
          /\ Nulls(prev.data[c]) > 0
          /\ Count(prev.data[c], Num(1)) = Count(prev.data[c], Num(2))
          /\ Count(prev.data[c], Num(1)) > 0
          /\ FilledWith(c, Num(1))

\* The last call is the impute_missing_values of a cleaning session: it came
\* right after drop_nulls_over_threshold(T) with T < 100, on a table with at
\* least one row.
CleaningSession ==
    /\ op.name = "impute_missing_values"
    /\ RLt(op.after_drop, Num(100))
    /\ NRows(prev) >= 1

NoNullLeft ==
    /\ op.raised = ""
    /\ \A c \in Range(df.columns) : Nulls(df.data[c]) = 0

\* C20 as stated: on any table with at least one row, after
\* drop_nulls_over_threshold(T) with T < 100 followed by
\* impute_missing_values, the imputation completes without raising and no
\* column of the table contains a null.
C20_SessionLeavesNoNull == CleaningSession => NoNullLeft

\* No cell of d is an infinity.
FiniteCells(d) ==
    \A c \in Range(d.columns) : \A i \in 1..NRows(d) : ~IsInf(d.data[c][i])

\* C20 as amended: the same on any table with at least one row whose
\* numeric cells are finite or null.
C20_FiniteSessionLeavesNoNull == CleaningSession /\ FiniteCells(prev) => NoNullLeft

\* Reached by drop_nulls_over_threshold(50) and impute_missing_values on a
\* table whose float64 column and object column are both half null.
C20_Witness ==
    /\ CleaningSession
    /\ op.after_drop = Num(50)
    /\ FiniteCells(prev)
    /\ \E c1, c2 \in Range(prev.columns) :
          /\ IsFloatOrInt(prev, c1) /\ ~IsFloatOrInt(prev, c2)
          /\ 2 * Nulls(prev.data[c1]) = NRows(prev)
          /\ 2 * Nulls(prev.data[c2]) = NRows(prev)
    /\ NoNullLeft

\* |m - md| is 10% of |m| or more, for numbers m and md.
GapAtLeastTenPercent(m, md) ==
    /\ m[2] # 0 /\ md[2] # 0
    /\ RLe(RAbs(m), RMul(Num(10), RAbs(RSub(m, md))))

\* C21: impute_missing_values fills the nulls of a numeric column whose
\* mean is negative and whose median differs from the mean by 10% of |mean|
\* or more with the median, not the mean.
C21_NegativeMeanGuard ==
    Completed("impute_missing_values") =>
        \A c \in Range(prev.columns) :
            /\ IsFloatOrInt(prev, c)
            /\ Nulls(prev.data[c]) > 0
            /\ RLt(Mean(prev.data[c]), Num(0))
            /\ GapAtLeastTenPercent(Mean(prev.data[c]), Median(prev.data[c]))
            => FilledWith(c, Median(prev.data[c]))
(***************************************************************************)
(* Outlier removal: the tables it starts from have a float64 column amt, an*)
(* int64 column id numbering the rows and an object column tag.            *)
(***************************************************************************)
OutlierValues == {0, 1, 3}

OutlierDtypes == [amt |-> "float64", id |-> "int64", tag |-> "object"]

OutlierTable(amt) ==
    DataFrame(<<"amt", "id", "tag">>, OutlierDtypes,
              [amt |-> amt,
               id  |-> [i \in 1..Len(amt) |-> Num(i)],
               tag |-> [i \in 1..Len(amt) |-> Num(1)]],
              Index(Len(amt)))

ScenarioAmt == OutlierTable(<<Num(1), Num(2), Num(3), Num(4), Num(100)>>)

\* d is one of the tables outlier removal starts from.
IsOutlierTable(d) ==
    \/ \E n \in 0..MaxOutlierRows :
          \E s \in SeqsOfLen(Cells(OutlierValues), n) : d = OutlierTable(s)
    \/ d = ScenarioAmt

Call_remove_outliers ==
    \E column \in ColumnArguments :
        LET r == remove_outliers(df, column)
            call == [NoCall EXCEPT !.name = "remove_outliers", !.col = column,
                                   !.raised = r.raised]
        IN  IF r.rebound THEN Rebind(r.df, call) ELSE InPlace(r.df, call)

InitOutliers ==
    /\ IsOutlierTable(df)
    /\ table = df
    /\ same_object = TRUE
    /\ prev = df
    /\ op = NoCall
    /\ NoDriver

NextOutliers == Call_remove_outliers

SpecOutliers == InitOutliers /\ [][NextOutliers]_vars

(***************************************************************************)
(* Properties of outlier removal.                                          *)
(***************************************************************************)
\* The order statistics of s as integers (the cells of these tables are
\* whole numbers), and four times the quartiles: with n values, Q1 lies at
\* position (n-1)/4 and Q3 at position 3(n-1)/4, interpolated linearly.
Ints(s) == LET x == Sorted(NonNull(s)) IN [i \in 1..Len(x) |-> x[i][1]]

FourQ(x, num) ==
    LET n == Len(x)
        k == ((n - 1) * num) \div 4
        r == ((n - 1) * num) % 4
    IN  IF r = 0 THEN 4 * x[k + 1] ELSE 4 * x[k + 1] + r * (x[k + 2] - x[k + 1])

\* v lies in [Q1 - 1.5*IQR, Q3 + 1.5*IQR] for the quartiles of s (all
\* terms multiplied by 8).
InIqrRange(v, s) ==
    LET x == Ints(s)
        q1 == FourQ(x, 1)
        q3 == FourQ(x, 3)
    IN  /\ v # NaN
        /\ Len(x) > 0
        /\ 8 * v[1] >= 2 * q1 - 3 * (q3 - q1)
        /\ 8 * v[1] <= 2 * q3 + 3 * (q3 - q1)

WholeNumbers(s) == \A i \in 1..Len(s) : s[i] = NaN \/ s[i][2] = 1

\* The rows of d at the positions of keep, with every column and the index.
RowsKept(d, keep) ==
    LET pos == SelectSeq([i \in 1..NRows(d) |-> i], LAMBDA i : i \in keep)
    IN  /\ NRows(df) = Len(pos)
        /\ df.columns = d.columns /\ df.dtype = d.dtype
        /\ \A j \in 1..Len(pos) :
              /\ df.index[j] = d.index[pos[j]]
              /\ \A c \in Range(d.columns) : df.data[c][j] = d.data[c][pos[j]]

NumericCall(name) ==
    /\ Completed(name) /\ HasColumn(prev, op.col) /\ is_numeric_dtype(prev, op.col)

\* C2: remove_outliers(column) on a numeric column keeps exactly the rows
\* whose value lies in [Q1 - 1.5*IQR, Q3 + 1.5*IQR], the quartiles being
\* those of the column before filtering; the row count never grows, over
\* any sequence of calls; amt = [1,2,3,4,100] has bounds [-1, 7] and loses
\* only the row with 100.
C2_RemoveOutliers ==
    op.name = "remove_outliers" =>
        /\ NRows(df) <= NRows(prev)
        /\ NumericCall("remove_outliers") /\ WholeNumbers(prev.data[op.col]) =>
              RowsKept(prev, {i \in 1..NRows(prev) :
                                 InIqrRange(prev.data[op.col][i], prev.data[op.col])})
        /\ prev = ScenarioAmt /\ op.col = "amt" =>
              /\ lower_bound(prev.data["amt"]) = Num(-1)
              /\ upper_bound(prev.data["amt"]) = Num(7)
              /\ df.data["amt"] = <<Num(1), Num(2), Num(3), Num(4)>>
              /\ df.index = <<0, 1, 2, 3>>
              /\ NRows(df) = 4

C2_Witness ==
    /\ NumericCall("remove_outliers")
    /\ op.col = "amt"
    /\ NRows(df) < NRows(prev)
    /\ NRows(df) > 0
    /\ \E i \in 1..NRows(prev) :
          prev.data["amt"][i] # NaN /\ prev.index[i] \notin Range(df.index)

\* The table a second remove_outliers call on the same column would leave.
Reapplied == remove_outliers(df, op.col).df

\* C3 as stated: a second remove_outliers call on an already filtered
\* numeric column removes no further row.
C3_ReapplyIsNoOp ==
    NumericCall("remove_outliers") => Reapplied = df

\* C3, amended: the second call recomputes the quartiles from the filtered
\* rows; it adds or reorders no row and keeps every row whose value lies
\* between the recomputed Q1 and Q3, it changes nothing when the first call
\* removed no row, and the filtered scenario table [1,2,3,4] is a fixed
\* point; other rows inside the first bounds can fall outside the second.
C3_Reapply ==
    NumericCall("remove_outliers") =>
        /\ Reapplied.index = SelectSeq(df.index, LAMBDA l : l \in Range(Reapplied.index))
        /\ \A i \in 1..NRows(df) :
              LET x == Ints(df.data[op.col])
                  v == df.data[op.col][i]
              IN  v # NaN /\ FourQ(x, 1) <= 4 * v[1] /\ 4 * v[1] <= FourQ(x, 3) =>
                      df.index[i] \in Range(Reapplied.index)
        /\ NRows(df) = NRows(prev) => Reapplied = df
        /\ prev = ScenarioAmt /\ op.col = "amt" => Reapplied = df

C3_Witness ==
    /\ NumericCall("remove_outliers")
    /\ NRows(df) < NRows(prev)
    /\ NRows(Reapplied) < NRows(df)
    /\ NRows(Reapplied) > 0
(***************************************************************************)
(* Correlation reduction: the tables it starts from have the numeric       *)
(* columns x, y and z and, between x and y, an object column g holding the *)
(* cells of x.  The rows are listed by increasing x (a reordering of the   *)
(* rows changes no correlation).  In the tables where y holds nulls, z     *)
(* alternates between 0 and 1.                                             *)
(***************************************************************************)
CorrValues == {0, 1, 2}

CorrDtypes == [x |-> "float64", g |-> "object", y |-> "float64", z |-> "int64"]

CorrTable(x, y, z) ==
    DataFrame(<<"x", "g", "y", "z">>, CorrDtypes,
              [x |-> x, g |-> x, y |-> y, z |-> z], Index(Len(x)))

Increasing(s) == \A i \in 1..(Len(s) - 1) : RLe(s[i], s[i + 1])

\* x = [0,1,2,3] and y = [0,1,1,2] have r = sqrt(0.9), about 0.95.
ScenarioCorr ==
    CorrTable(<<Num(0), Num(1), Num(2), Num(3)>>, <<Num(0), Num(1), Num(1), Num(2)>>,
              <<Num(1), Num(0), Num(1), Num(0)>>)

NoNulls(S) == {Num(k) : k \in S}

IncreasingSeqs(n) ==
    {s \in SeqsOfLen(NoNulls(CorrValues), n) : Increasing(s)}

Alternating(n) == [i \in 1..n |-> Num(i % 2)]

\* d is one of the tables correlation reduction starts from.
IsCorrTable(d) ==
    \/ \E n \in 0..MaxCorrRows :
          \E x \in IncreasingSeqs(n), y \in SeqsOfLen(NoNulls(CorrValues), n),
             z \in SeqsOfLen(NoNulls({0, 1}), n) : d = CorrTable(x, y, z)
    \/ \E n \in 0..MaxCorrRows :
          \E x \in IncreasingSeqs(n), y \in SeqsOfLen(Cells({0, 1}), n) :
             d = CorrTable(x, y, Alternating(n))
    \/ d = ScenarioCorr

CorrThresholds == {<<1, 2>>, <<9, 10>>}

Call_identify_highly_correlated ==
    \E threshold \in CorrThresholds :
        InPlace(df, [NoCall EXCEPT !.name = "identify_highly_correlated",
                                   !.threshold = threshold,
                                   !.pairs = identify_highly_correlated(df, threshold)])

Call_remove_highly_correlated_columns ==
    \E threshold \in CorrThresholds :
        LET r == remove_highly_correlated_columns(df, threshold)
        IN  InPlace(r.df, [NoCall EXCEPT !.name = "remove_highly_correlated_columns",
                                         !.threshold = threshold,
                                         !.pairs = r.pairs,
                                         !.dropped = r.removed])

InitCorr ==
    /\ IsCorrTable(df)
    /\ table = df
    /\ same_object = TRUE
    /\ prev = df
    /\ op = NoCall
    /\ NoDriver

NextCorr ==
    \/ Call_identify_highly_correlated
    \/ Call_remove_highly_correlated_columns

SpecCorr == InitCorr /\ [][NextCorr]_vars

(***************************************************************************)
(* Properties of correlation reduction.                                    *)
(***************************************************************************)
\* |r| > t for Pearson's r of columns c1 and c2 of d (whole numbers) over
\* their common non-null rows, in integers: r is defined, and
\* cov^2 * tden^2 > tnum^2 * vx * vy.
AbsCorrelationAbove(d, c1, c2, t) ==
    LET both == SelectSeq([i \in 1..NRows(d) |-> i],
                          LAMBDA i : d.data[c1][i] # NaN /\ d.data[c2][i] # NaN)
        n   == Len(both)
        x   == [j \in 1..n |-> d.data[c1][both[j]][1]]
        y   == [j \in 1..n |-> d.data[c2][both[j]][1]]
        sx  == SumInts(x)
        sy  == SumInts(y)
        cov == n * SumInts([j \in 1..n |-> x[j] * y[j]]) - sx * sy
        vx  == n * SumInts([j \in 1..n |-> x[j] * x[j]]) - sx * sx
        vy  == n * SumInts([j \in 1..n |-> y[j] * y[j]]) - sy * sy
    IN  vx * vy > 0 /\ cov * cov * t[2] * t[2] > t[1] * t[1] * vx * vy

NumericNames(d) == {c \in Range(d.columns) : d.dtype[c] \in {"float64", "int64"}}

Position(d, c) == CHOOSE i \in 1..Len(d.columns) : d.columns[i] = c

\* C4: after remove_highly_correlated_columns(threshold) no two remaining
\* numeric columns have an absolute correlation above the threshold, and the
\* returned removal set is disjoint from the columns of the returned table.
C4_NoCorrelatedPairLeft ==
    op.name = "remove_highly_correlated_columns" =>
        /\ \A c1, c2 \in NumericNames(df) :
              c1 # c2 => ~AbsCorrelationAbove(df, c1, c2, op.threshold)
        /\ op.dropped \cap Range(df.columns) = {}
        /\ Range(df.columns) \cup op.dropped = Range(prev.columns)

C4_Witness ==
    /\ op.name = "remove_highly_correlated_columns"
    /\ op.dropped # {}
    /\ Cardinality(NumericNames(df)) >= 2
    /\ \E c1, c2 \in NumericNames(prev) :
          c1 # c2 /\ AbsCorrelationAbove(prev, c1, c2, op.threshold)

\* C5 as stated: for every pair (c1, c2) identify_highly_correlated
\* reports, c2 is dropped and c1 is still a column of the returned table.
C5_FirstOfEveryPairKept ==
    op.name = "remove_highly_correlated_columns" =>
        \A i \in 1..Len(op.pairs) :
            /\ op.pairs[i][2] \notin Range(df.columns)
            /\ op.pairs[i][1] \in Range(df.columns)

\* C5, amended: the removal set holds exactly the second-named columns of
\* the reported pairs, so c2 of every pair is dropped, and c1 is kept
\* unless it is itself the second column of another reported pair; the
\* first column of the first reported pair is always kept; with x and y
\* correlated at about 0.95 and threshold 0.9 only y is dropped.
C5_SecondOfEveryPairDropped ==
    op.name = "remove_highly_correlated_columns" =>
        /\ op.dropped = {op.pairs[i][2] : i \in 1..Len(op.pairs)}
        /\ Range(df.columns) = Range(prev.columns) \ op.dropped
        /\ \A i \in 1..Len(op.pairs) :
              /\ op.pairs[i][2] \notin Range(df.columns)
              /\ op.pairs[i][1] \in Range(df.columns)
                    <=> ~\E j \in 1..Len(op.pairs) : op.pairs[j][2] = op.pairs[i][1]
        /\ Len(op.pairs) > 0 => op.pairs[1][1] \in Range(df.columns)
        /\ prev = ScenarioCorr /\ op.threshold = <<9, 10>> =>
              /\ op.pairs = <<<<"x", "y">>>>
              /\ df.columns = <<"x", "g", "z">>

C5_Witness ==
    /\ op.name = "remove_highly_correlated_columns"
    /\ \E i, j \in 1..Len(op.pairs) :
          /\ op.pairs[j][2] = op.pairs[i][1]
          /\ op.pairs[i][1] \notin Range(df.columns)
          /\ op.pairs[j][1] \in Range(df.columns)

\* C6: identify_highly_correlated(threshold) returns, over the numeric
\* columns only, every pair (columns[i], columns[j]) with i < j whose
\* absolute correlation is strictly greater than the threshold and nothing
\* else: no self-pair, no pair twice or in both orders, no non-numeric
\* column, and no error.
C6_IdentifyHighlyCorrelated ==
    op.name = "identify_highly_correlated" =>
        /\ op.raised = ""
        /\ df = prev
        /\ Range(op.pairs) =
              {pair \in NumericNames(df) \X NumericNames(df) :
                  /\ Position(df, pair[1]) < Position(df, pair[2])
                  /\ AbsCorrelationAbove(df, pair[1], pair[2], op.threshold)}
        /\ Cardinality(Range(op.pairs)) = Len(op.pairs)
        /\ \A i \in 1..Len(op.pairs) :
              /\ op.pairs[i][1] # op.pairs[i][2]
              /\ <<op.pairs[i][2], op.pairs[i][1]>> \notin Range(op.pairs)
              /\ df.dtype[op.pairs[i][1]] # "object"
              /\ df.dtype[op.pairs[i][2]] # "object"

C6_Witness ==
    /\ op.name = "identify_highly_correlated"
    /\ Len(op.pairs) = 1
    /\ \E c1, c2 \in NumericNames(df) :
          /\ Position(df, c1) < Position(df, c2)
          /\ ~AbsCorrelationAbove(df, c1, c2, op.threshold)
          /\ AbsCorrelationAbove(df, c1, c2, <<1, 4>>)
(***************************************************************************)
(* Skew correction: the tables it starts from have a float64 column v and  *)
(* an object column g.                                                     *)
(***************************************************************************)
SkewValues == {0, 1, 4}

SkewTable(v) ==
    DataFrame(<<"v", "g">>, [v |-> "float64", g |-> "object"],
              [v |-> v, g |-> [i \in 1..Len(v) |-> Num(1)]], Index(Len(v)))

IsSkewTable(d) ==
    \E n \in 0..MaxSkewRows :
        \E v \in SeqsOfLen(Cells(SkewValues), n) : d = SkewTable(v)

Methods == {"log", "sqrt", "boxcox", "cube"}

Call_transform_column ==
    \E col \in ColumnArguments, method \in Methods :
        LET r == transform_column(df, col, method)
        IN  InPlace(df, [NoCall EXCEPT !.name = "transform_column", !.col = col,
                                       !.method = method, !.series = r.series,
                                       !.raised = r.raised,
                                       !.log = IF r.failed
                                               THEN <<<<col, "Non-numeric data type">>>>
                                               ELSE <<>>])

Call_find_best_transformation ==
    \E col \in ColumnArguments :
        LET r == find_best_transformation(df, col)
        IN  InPlace(df, [NoCall EXCEPT !.name = "find_best_transformation", !.col = col,
                                       !.method = r.method, !.series = r.series,
                                       !.raised = r.raised])

SkewThresholds == {0, 1}

Call_transform_skewed_columns ==
    \E t \in SkewThresholds :
        LET r == transform_skewed_columns(df, t)
        IN  InPlace(r.df, [NoCall EXCEPT !.name = "transform_skewed_columns",
                                         !.threshold = Num(t), !.log = r.log,
                                         !.raised = r.raised])

InitSkew ==
    /\ IsSkewTable(df)
    /\ table = df
    /\ same_object = TRUE
    /\ prev = df
    /\ op = NoCall
    /\ NoDriver

NextSkew ==
    \/ Call_transform_column
    \/ Call_find_best_transformation
    \/ Call_transform_skewed_columns

SpecSkew == InitSkew /\ [][NextSkew]_vars

(***************************************************************************)
(* Properties of skew correction.                                          *)
(***************************************************************************)
\* The candidate column a method stands for: log(1 + x) or sqrt(x) of every
\* cell.
Candidate(s, method) ==
    [i \in 1..Len(s) |-> IF method = "log" THEN log1p(s[i]) ELSE sqrt(s[i])]

\* C10: find_best_transformation(col) returns one of the methods log, sqrt
\* and boxcox, the one whose transformed column has the least absolute
\* skewness, together with that transformed column: for a numeric column
\* with at least three values the column returned with the method log is
\* log(1 + x) of the column, and the one returned with sqrt is sqrt(x).
C10_BestTransformation ==
    /\ NumericCall("find_best_transformation")
    /\ Len(NonNull(prev.data[op.col])) >= 3
    => /\ op.method \in {"log", "sqrt", "boxcox"}
       /\ op.method \in {"log", "sqrt"} =>
             op.series = Candidate(prev.data[op.col], op.method)

\* The columns identify_skewed_columns reported to the last
\* transform_skewed_columns call.
Reported == Range(identify_skewed_columns(prev, op.threshold[1]))

\* C11: after transform_skewed_columns(threshold), every column that
\* identify_skewed_columns(threshold) reported holds the values of the
\* selected transform applied to its previous values, the method logged for
\* the column is the transform that was applied, and every column that was
\* not reported is unchanged.
C11_TransformSkewedColumns ==
    op.name = "transform_skewed_columns" =>
       /\ \A c \in Reported :
             \E i \in 1..Len(op.log) :
                /\ op.log[i][1] = c
                /\ op.log[i][2] \in {"log", "sqrt", "boxcox"}
                /\ op.log[i][2] \in {"log", "sqrt"} =>
                      df.data[c] = Candidate(prev.data[c], op.log[i][2])
       /\ \A c \in Range(prev.columns) \ Reported : df.data[c] = prev.data[c]

\* C12: transform_column(col, method) on a numeric column with a method other
\* than log, sqrt and boxcox raises ValueError and returns no column.
C12_InvalidMethodRaises ==
    /\ op.name = "transform_column"
    /\ HasColumn(prev, op.col) /\ IsFloatOrInt(prev, op.col)
    /\ op.method \notin {"log", "sqrt", "boxcox"}
    => /\ op.raised = "ValueError"
       /\ op.series = <<>>

(***************************************************************************)
(* The cleaning session: every stage of DataFrameTransform, in any order,  *)
(* on tables with a float64 column a, an object column b and an int64      *)
(* column c that counts the rows.                                          *)
(***************************************************************************)
\* The amounts of a: k rows of 0 followed by rows of 1, the first of them
\* null or not.
SessionAmounts(n) ==
    {[i \in 1..n |-> IF i = 1 /\ null THEN NaN ELSE IF i <= k THEN Num(0) ELSE Num(1)] :
        k \in 0..n, null \in BOOLEAN}

SessionTable(a, b) ==
    DataFrame(<<"a", "b", "c">>, [a |-> "float64", b |-> "object", c |-> "int64"],
              [a |-> a, b |-> b, c |-> [i \in 1..Len(a) |-> Num(i - 1)]],
              Index(Len(a)))

\* The labels of b: one label on every row, the first of them null or not.
SessionLabels(n) ==
    {[i \in 1..n |-> Num(1)], [i \in 1..n |-> IF i = 1 THEN NaN ELSE Num(1)]}

IsSessionTable(d) ==
    \E n \in 0..MaxSessionRows :
        \E a \in SessionAmounts(n), b \in SessionLabels(n) :
            d = SessionTable(a, b)

InitSession ==
    /\ IsSessionTable(df)
    /\ table = df
    /\ same_object = TRUE
    /\ prev = df
    /\ op = NoCall
    /\ NoDriver

NextSession ==
    \/ Call_drop_nulls_over_threshold
    \/ Call_impute_missing_values
    \/ Call_transform_column
    \/ Call_find_best_transformation
    \/ Call_transform_skewed_columns
    \/ Call_remove_outliers
    \/ Call_remove_highly_correlated_columns

SpecSession == InitSession /\ [][NextSession]_vars

\* The last call was made on a column of the table that is not numeric.
NonNumericCall(name) ==
    op.name = name /\ HasColumn(prev, op.col) /\ ~is_numeric_dtype(prev, op.col)

\* C13: cleaning operations applied to a non-numeric column are no-ops that
\* never raise: transform_column logs a failure and returns the column
\* unchanged, find_best_transformation and transform_skewed_columns leave
\* the column unchanged, and remove_outliers returns the table with the
\* same rows.
C13_NonNumericNoOp ==
    /\ NonNumericCall("transform_column") =>
          /\ op.raised = ""
          /\ op.series = prev.data[op.col]
          /\ op.log = <<<<op.col, "Non-numeric data type">>>>
          /\ df = prev
    /\ NonNumericCall("find_best_transformation") =>
          /\ op.raised = ""
          /\ df = prev
    /\ op.name = "transform_skewed_columns" =>
          /\ op.raised = ""
          /\ \A c \in Range(prev.columns) :
                ~is_numeric_dtype(prev, c) => df.data[c] = prev.data[c]
    /\ NonNumericCall("remove_outliers") =>
          /\ op.raised = ""
          /\ df = prev

\* C14: after any sequence of cleaning calls, the table the driver passed to
\* DataFrameTransform has the rows and the columns of DataFrameTransform.df.
C14_SharedTable ==
    /\ table.columns = df.columns
    /\ table.index = df.index
    /\ table.data = df.data

(***************************************************************************)
(* The type normalizer, DataTransform (src/datatransformation.py).  In its *)
(* tables a cell is a record: a null (NaN, None or NaT), a text with its   *)
(* characters, an integer, or a month of a year.  df is the DataFrame      *)
(* self.df of the DataTransform.                                           *)
(***************************************************************************)
NullCell == [kind |-> "null", text |-> <<>>, num |-> 0]

StrCell(t) == [kind |-> "str", text |-> t, num |-> 0]

IntCell(k) == [kind |-> "int", text |-> <<>>, num |-> k]

DateCell(year, month) == [kind |-> "date", text |-> <<>>, num |-> 12 * year + month - 1]

Digits == <<"0", "1", "2", "3", "4", "5", "6", "7", "8", "9">>

IsDigit(ch) == \E i \in 1..Len(Digits) : Digits[i] = ch

DigitValue(ch) == (CHOOSE i \in 1..Len(Digits) : Digits[i] = ch) - 1

\* The match of the pattern (\d+) in a text: the first digit and the digits
\* that follow it (AllDigits: the variant that joins every digit of the
\* text).
RECURSIVE AllDigits(_)
AllDigits(t) ==
    IF Len(t) = 0 THEN <<>>
    ELSE (IF IsDigit(t[1]) THEN <<t[1]>> ELSE <<>>) \o AllDigits(Tail(t))

RECURSIVE DigitsAtStart(_)
DigitsAtStart(t) ==
    IF Len(t) = 0 \/ ~IsDigit(t[1]) THEN <<>>
    ELSE <<t[1]>> \o DigitsAtStart(Tail(t))

RECURSIVE FirstDigitRun(_)
FirstDigitRun(t) ==
    IF Len(t) = 0 THEN <<>>
    ELSE IF IsDigit(t[1]) THEN DigitsAtStart(t)
    ELSE FirstDigitRun(Tail(t))

\* Series.str.extract('(\d+)') for one cell: the matched text, NaN when the
\* cell is not a text or has no digit.
str_extract(v) ==
    IF v.kind = "str" /\ Len(FirstDigitRun(v.text)) > 0
    THEN StrCell(FirstDigitRun(v.text))
    ELSE NullCell

\* int(text) for a text of digits
RECURSIVE ParseInt(_, _)
ParseInt(t, acc) ==
    IF Len(t) = 0 THEN acc ELSE ParseInt(Tail(t), 10 * acc + DigitValue(t[1]))

\* .fillna(0).astype(int) for one cell of the extracted column
fillna_astype_int(v) ==
    IF v.kind = "null" THEN IntCell(0)
    ELSE IF v.kind = "str" THEN IntCell(ParseInt(v.text, 0))
    ELSE v

\* Whether Series.str exists: on a column of texts and nulls, of dtype object
\* or category; on any other column reading it raises AttributeError.
HasStrAccessor(d, col) ==
    /\ d.dtype[col] \in {"object", "category"}
    /\ \A i \in 1..Len(d.data[col]) : d.data[col][i].kind \in {"str", "null"}

\* df[col] = values, with the dtype of the values
SetTypedColumn(d, col, dtype, values) ==
    [d EXCEPT !.dtype[col] = dtype, !.data[col] = values]

\* convert_mixed_obj_to_int, from the i-th listed column on: an exception in
\* the body is caught, printed, and the loop goes on.
RECURSIVE MixedFrom(_, _, _, _)
MixedFrom(d, columns, i, log) ==
    IF i > Len(columns) THEN [df |-> d, log |-> log, raised |-> ""]
    ELSE LET col == columns[i]
         IN  IF ~HasColumn(d, col)
             THEN MixedFrom(d, columns, i + 1, Append(log, <<col, "Error: KeyError">>))
             ELSE IF ~HasStrAccessor(d, col)
             THEN MixedFrom(d, columns, i + 1, Append(log, <<col, "Error: AttributeError">>))
             ELSE MixedFrom(SetTypedColumn(d, col, "int64",
                                [r \in 1..Len(d.data[col]) |->
                                    fillna_astype_int(str_extract(d.data[col][r]))]),
                            columns, i + 1, Append(log, <<col, "Converted">>))

convert_mixed_obj_to_int(d, columns) == MixedFrom(d, columns, 1, <<>>)

LowerCase == <<"a", "b", "c", "d", "e", "f", "g", "j", "l", "m", "n", "o", "p",
               "r", "s", "t", "u", "v", "y">>

UpperCase == <<"A", "B", "C", "D", "E", "F", "G", "J", "L", "M", "N", "O", "P",
               "R", "S", "T", "U", "V", "Y">>

\* str.lower() of one character, for the letters of the month names
Lower(ch) ==
    IF \E i \in 1..Len(UpperCase) : UpperCase[i] = ch
    THEN LowerCase[CHOOSE i \in 1..Len(UpperCase) : UpperCase[i] = ch]
    ELSE ch

MonthNames ==
    << <<"j", "a", "n">>, <<"f", "e", "b">>, <<"m", "a", "r">>, <<"a", "p", "r">>,
       <<"m", "a", "y">>, <<"j", "u", "n">>, <<"j", "u", "l">>, <<"a", "u", "g">>,
       <<"s", "e", "p">>, <<"o", "c", "t">>, <<"n", "o", "v">>, <<"d", "e", "c">> >>

\* The years a datetime64[ns] value can hold in full.
MinYear == 1678

MaxYear == 2261

\* pd.to_datetime(value, format="%b-%Y", errors='coerce') for one cell: the
\* whole text has to be a month abbreviation (in any case), a dash and four
\* digits; a value already a datetime is kept
\* (to_datetime_text_only: the variant that parses texts only).
to_datetime_text_only(v) ==
    IF v.kind = "str" /\ Len(v.text) = 8
    THEN LET month == [i \in 1..3 |-> Lower(v.text[i])]
             year  == SubSeq(v.text, 5, 8)
         IN  IF /\ \E m \in 1..12 : MonthNames[m] = month
                /\ v.text[4] = "-"
                /\ \A i \in 1..4 : IsDigit(year[i])
                /\ ParseInt(year, 0) >= MinYear /\ ParseInt(year, 0) <= MaxYear
             THEN DateCell(ParseInt(year, 0), CHOOSE m \in 1..12 : MonthNames[m] = month)
             ELSE NullCell
    ELSE NullCell

to_datetime(v) ==
    IF v.kind = "date" THEN v ELSE to_datetime_text_only(v)

\* convert_date_object_to_datetime, from the i-th listed column on: nothing
\* catches the KeyError of a column the table does not have.
RECURSIVE DateFrom(_, _, _, _)
DateFrom(d, columns, i, log) ==
    IF i > Len(columns) THEN [df |-> d, log |-> log, raised |-> ""]
    ELSE LET col == columns[i]
         IN  IF ~HasColumn(d, col)
             THEN [df |-> d, log |-> log, raised |-> "KeyError"]
             ELSE DateFrom(SetTypedColumn(d, col, "datetime64[ns]",
                               [r \in 1..Len(d.data[col]) |-> to_datetime(d.data[col][r])]),
                           columns, i + 1, Append(log, <<col, "Converted">>))

convert_date_object_to_datetime(d, columns) == DateFrom(d, columns, 1, <<>>)

\* convert_to_categorical, from the i-th listed column on
RECURSIVE CategoricalFrom(_, _, _, _)
CategoricalFrom(d, columns, i, log) ==
    IF i > Len(columns) THEN [df |-> d, log |-> log, raised |-> ""]
    ELSE LET col == columns[i]
         IN  IF ~HasColumn(d, col)
             THEN CategoricalFrom(d, columns, i + 1, Append(log, <<col, "Error: KeyError">>))
             ELSE CategoricalFrom(SetTypedColumn(d, col, "category", d.data[col]),
                                  columns, i + 1, Append(log, <<col, "Converted">>))

convert_to_categorical(d, columns) == CategoricalFrom(d, columns, 1, <<>>)

columns_to_transform_mixed_obj_to_int == <<"term", "employment_length">>

columns_to_transform_date_object_to_datetime ==
    <<"issue_date", "earliest_credit_line", "last_payment_date", "last_credit_pull_date">>

columns_to_transform_to_categorical ==
    <<"grade", "sub_grade", "home_ownership", "verification_status", "loan_status",
      "payment_plan", "purpose", "policy_code", "application_type">>

apply_transformations(d) ==
    LET r1 == convert_mixed_obj_to_int(d, columns_to_transform_mixed_obj_to_int)
        r2 == convert_date_object_to_datetime(r1.df, columns_to_transform_date_object_to_datetime)
        r3 == convert_to_categorical(r2.df, columns_to_transform_to_categorical)
    IN  IF r2.raised # ""
        THEN [df |-> r2.df, log |-> r1.log \o r2.log, raised |-> r2.raised]
        ELSE [df |-> r3.df, raised |-> "",
              log |-> r1.log \o r2.log \o r3.log
                      \o <<<<"", "All transformations successfully completed.">>>>]

(***************************************************************************)
(* The calls on the DataTransform and the tables they start from: the      *)
(* columns of the loan table that the normalizer rewrites (the column      *)
(* employment_length and eight of the nine label columns left out).        *)
(***************************************************************************)
ColumnLists ==
    {<<"term">>, <<"issue_date">>, <<"absent">>, <<"absent", "term">>,
     <<"term", "issue_date">>}

Call_convert_mixed_obj_to_int ==
    \E columns \in ColumnLists :
        LET r == convert_mixed_obj_to_int(df, columns)
        IN  InPlace(r.df, [NoCall EXCEPT !.name = "convert_mixed_obj_to_int",
                                         !.columns = columns, !.log = r.log,
                                         !.raised = r.raised])

Call_convert_date_object_to_datetime ==
    \E columns \in ColumnLists :
        LET r == convert_date_object_to_datetime(df, columns)
        IN  InPlace(r.df, [NoCall EXCEPT !.name = "convert_date_object_to_datetime",
                                         !.columns = columns, !.log = r.log,
                                         !.raised = r.raised])

Call_convert_to_categorical ==
    \E columns \in ColumnLists :
        LET r == convert_to_categorical(df, columns)
        IN  InPlace(r.df, [NoCall EXCEPT !.name = "convert_to_categorical",
                                         !.columns = columns, !.log = r.log,
                                         !.raised = r.raised])

Call_apply_transformations ==
    LET r == apply_transformations(df)
    IN  InPlace(r.df, [NoCall EXCEPT !.name = "apply_transformations",
                                     !.log = r.log, !.raised = r.raised])

TextAlphabet == {"0", "1", "y"}

Jan2021 == StrCell(<<"J", "a", "n", "-", "2", "0", "2", "1">>)

Months36 == StrCell(<<"3", "6", " ", "m", "o", "n", "t", "h", "s">>)

TenYears == StrCell(<<"1", "0", "+", " ", "y", "e", "a", "r", "s">>)

TermSamples ==
    {Months36,
     TenYears,
     StrCell(<<"<", " ", "1", " ", "y", "e", "a", "r">>),
     StrCell(<<"n", "/", "a">>),
     NullCell}

DateSamples ==
    {Jan2021,
     StrCell(<<"d", "e", "c", "-", "2", "0", "1", "3">>),
     StrCell(<<"F", "e", "b", "-", "2", "1">>),
     StrCell(<<"J", "a", "n", "-", "0", "0", "0", "1">>),
     NullCell}

Repeat(v, n) == [i \in 1..n |-> v]

LoanTable(term, issue_date) ==
    LET n == Len(term)
    IN  DataFrame(<<"term", "issue_date", "earliest_credit_line", "last_payment_date",
                    "last_credit_pull_date", "grade">>,
                  [term |-> "object", issue_date |-> "object",
                   earliest_credit_line |-> "object", last_payment_date |-> "object",
                   last_credit_pull_date |-> "object", grade |-> "object"],
                  [term |-> term, issue_date |-> issue_date,
                   earliest_credit_line |-> Repeat(Jan2021, n),
                   last_payment_date |-> Repeat(Jan2021, n),
                   last_credit_pull_date |-> Repeat(Jan2021, n),
                   grade |-> Repeat(StrCell(<<"A">>), n)],
                  Index(n))

\* d is one of the tables the normalizer starts from: one row with any
\* short text as its term, or rows over the sample terms or sample dates.
IsLoanTable(d) ==
    \/ \E k \in 0..MaxTextLen :
          \E t \in SeqsOfLen(TextAlphabet, k) :
             d = LoanTable(<<StrCell(t)>>, <<Jan2021>>)
    \/ \E n \in 0..MaxTypeRows :
          \E term \in SeqsOfLen(TermSamples, n) :
             d = LoanTable(term, Repeat(Jan2021, n))
    \/ \E n \in 0..MaxTypeRows :
          \E issue_date \in SeqsOfLen(DateSamples, n) :
             d = LoanTable(Repeat(Months36, n), issue_date)

InitTypes ==
    /\ IsLoanTable(df)
    /\ table = df
    /\ same_object = TRUE
    /\ prev = df
    /\ op = NoCall
    /\ NoDriver

NextTypes ==
    \/ Call_convert_mixed_obj_to_int
    \/ Call_convert_date_object_to_datetime
    \/ Call_convert_to_categorical
    \/ Call_apply_transformations

SpecTypes == InitTypes /\ [][NextTypes]_vars

(***************************************************************************)
(* Properties of the type normalizer.                                      *)
(***************************************************************************)
RECURSIVE Pow10(_)
Pow10(n) == IF n = 0 THEN 1 ELSE 10 * Pow10(n - 1)

\* The whole number the digits t[i..j] write.
DecimalValue(t, i, j) ==
    SumInts([p \in 1..(j - i + 1) |-> DigitValue(t[i + p - 1]) * Pow10(j - i + 1 - p)])

\* k is the integer given by the first contiguous run of digits of the
\* value v, or 0 when v is a null or a text without a digit.
FirstRunValue(v, k) ==
    IF v.kind = "str" /\ \E p \in 1..Len(v.text) : IsDigit(v.text[p])
    THEN \E i, j \in 1..Len(v.text) :
            /\ i <= j
            /\ \A p \in 1..(i - 1) : ~IsDigit(v.text[p])
            /\ \A p \in i..j : IsDigit(v.text[p])
            /\ j = Len(v.text) \/ ~IsDigit(v.text[j + 1])
            /\ k = DecimalValue(v.text, i, j)
    ELSE k = 0

\* A column of texts and nulls.
TextColumn(d, c) ==
    /\ HasColumn(d, c)
    /\ d.dtype[c] \in {"object", "category"}
    /\ \A r \in 1..NRows(d) : d.data[c][r].kind \in {"str", "null"}

\* C15: convert_mixed_obj_to_int replaces every value of each listed text
\* column by the integer given by the first contiguous run of digits in the
\* value ("10+ years" gives 10, "36 months" gives 36), and by 0 when the
\* value is a null or has no digit; the column then has integer type and no
\* null.  A listed column the extraction fails for is left unchanged, the
\* failure is logged once, and the columns listed after it are still
\* processed; the call raises nothing.
C15_ConvertMixedObjToInt ==
    op.name = "convert_mixed_obj_to_int" =>
       /\ op.raised = ""
       /\ Len(op.log) = Len(op.columns)
       /\ \A i \in 1..Len(op.columns) :
             LET c == op.columns[i]
             IN  /\ op.log[i][1] = c
                 /\ IF TextColumn(prev, c)
                    THEN /\ op.log[i][2] = "Converted"
                         /\ df.dtype[c] = "int64"
                         /\ \A r \in 1..NRows(prev) :
                               /\ df.data[c][r].kind = "int"
                               /\ FirstRunValue(prev.data[c][r], df.data[c][r].num)
                    ELSE /\ op.log[i][2] # "Converted"
                         /\ HasColumn(prev, c) =>
                               /\ df.dtype[c] = prev.dtype[c]
                               /\ df.data[c] = prev.data[c]
       /\ \A c \in Range(prev.columns) \ Range(op.columns) :
             df.dtype[c] = prev.dtype[c] /\ df.data[c] = prev.data[c]

\* Reached by convert_mixed_obj_to_int(['absent', 'term']) on the terms
\* "10+ years" and "36 months", and by the call on a term whose digits come
\* in two runs or after a null.
C15_Witness ==
    /\ op.name = "convert_mixed_obj_to_int"
    /\ op.columns = <<"absent", "term">>
    /\ op.log = <<<<"absent", "Error: KeyError">>, <<"term", "Converted">>>>
    /\ prev.data["term"] = <<TenYears, Months36>>
    /\ df.data["term"] = <<IntCell(10), IntCell(36)>>

\* C16: the type normalizer is idempotent: when convert_mixed_obj_to_int,
\* convert_date_object_to_datetime, convert_to_categorical or
\* apply_transformations has completed, the same call made again on the
\* table it produced raises nothing and leaves every column's values and
\* type as they are.
C16_NormalizerIdempotent ==
    /\ Completed("convert_mixed_obj_to_int") =>
          LET r == convert_mixed_obj_to_int(df, op.columns)
          IN  r.raised = "" /\ r.df = df
    /\ Completed("convert_date_object_to_datetime") =>
          LET r == convert_date_object_to_datetime(df, op.columns)
          IN  r.raised = "" /\ r.df = df
    /\ Completed("convert_to_categorical") =>
          LET r == convert_to_categorical(df, op.columns)
          IN  r.raised = "" /\ r.df = df
    /\ Completed("apply_transformations") =>
          LET r == apply_transformations(df)
          IN  r.raised = "" /\ r.df = df

\* Reached by apply_transformations on a table of texts: the terms become
\* integers, the dates months of a year or nulls, the grades categories.
C16_Witness ==
    /\ Completed("apply_transformations")
    /\ prev.dtype["term"] = "object" /\ df.dtype["term"] = "int64"
    /\ prev.dtype["issue_date"] = "object" /\ df.dtype["issue_date"] = "datetime64[ns]"
    /\ df.dtype["grade"] = "category"
    /\ \E r, q \in 1..NRows(df) :
          /\ df.data["issue_date"][r].kind = "date"
          /\ df.data["issue_date"][q].kind = "null"
          /\ prev.data["issue_date"][q].kind = "str"

\* C17: a call with a column name that is not in the table raises to its
\* caller: convert_mixed_obj_to_int, convert_date_object_to_datetime and
\* convert_to_categorical when a listed column is absent, transform_column
\* and remove_outliers when their column is.
C17_AbsentColumnRaises ==
    /\ /\ op.name \in {"convert_mixed_obj_to_int", "convert_date_object_to_datetime",
                        "convert_to_categorical"}
       /\ \E i \in 1..Len(op.columns) : ~HasColumn(prev, op.columns[i])
       => op.raised # ""
    /\ /\ op.name \in {"transform_column", "remove_outliers"}
       /\ ~HasColumn(prev, op.col)
       => op.raised # ""

(***************************************************************************)
(* The quality profiler, DataFrameInfo (src/inspectdata.py), and the loss  *)
(* metrics of Visualisations (src/visualisations.py).  Both read the       *)
(* table and change nothing.  The cells of loan_status are the positions   *)
(* of its labels in LoanStatuses.                                          *)
(***************************************************************************)
\* count_nulls: for every column the null count and
\* (null_counts / total_counts) * 100, a division of a Series: 0 / 0 is NaN.
count_nulls(d) ==
    [c \in Range(d.columns) |->
        [count |-> NullCount(d.data[c]), percentage |-> NullPercentage(d, c)]]

None == <<>>

Some(v) == <<v>>

\* self.df[col].mode()[0] if not self.df[col].mode().empty else None
\* (mode_last_or_none: the variant that takes the last mode)
mode_last_or_none(s) ==
    IF Len(Mode(s)) = 0 THEN None ELSE Some(Mode(s)[Len(Mode(s))])

mode_or_none(s) ==
    IF Len(Mode(s)) = 0 THEN None ELSE Some(Mode(s)[1])

\* describe_stats: mean, median and mode of every numeric column
describe_stats(d) ==
    [c \in Range(numeric_columns(d)) |->
        [mean |-> Some(Mean(d.data[c])), median |-> Some(Median(d.data[c])),
         mode |-> mode_or_none(d.data[c])]]

LoanStatuses ==
    <<"Charged Off", "Current", "In Grace Period", "Late (16-30 days)",
      "Late (31-120 days)">>

Status(label) == Num(CHOOSE i \in 1..Len(LoanStatuses) : LoanStatuses[i] = label)

\* (a / b) * 100 for the Python integers a and b: a division by zero raises
\* ZeroDivisionError.
PercentageOfInts(a, b) ==
    IF b = 0 THEN [value |-> NaN, raised |-> "ZeroDivisionError"]
    ELSE [value |-> Norm(100 * a, b), raised |-> ""]

\* Series.sum(): nulls are skipped
SumSkipNa(s) == Sum(NonNull(s))

\* The positions of the rows whose loan_status is one of the labels.
RowsWithStatus(d, labels) ==
    SelectSeq([i \in 1..NRows(d) |-> i],
              LAMBDA i : \E l \in labels : d.data["loan_status"][i] = Status(l))

\* self.df[mask][col]
ColumnOfRows(d, rows, col) == [j \in 1..Len(rows) |-> d.data[col][rows[j]]]

losses_calc(d) ==
    IF ~HasColumn(d, "loan_status")
    THEN [charged_off_percentage |-> NaN, total_paid_charged_off |-> NaN,
          raised |-> "KeyError"]
    ELSE LET charged_off == RowsWithStatus(d, {"Charged Off"})
             charged_off_percentage == PercentageOfInts(Len(charged_off), NRows(d))
         IN  IF charged_off_percentage.raised # ""
             THEN [charged_off_percentage |-> NaN, total_paid_charged_off |-> NaN,
                   raised |-> charged_off_percentage.raised]
             ELSE IF ~HasColumn(d, "total_payment")
             THEN [charged_off_percentage |-> NaN, total_paid_charged_off |-> NaN,
                   raised |-> "KeyError"]
             ELSE [charged_off_percentage |-> charged_off_percentage.value,
                   total_paid_charged_off |->
                       SumSkipNa(ColumnOfRows(d, charged_off, "total_payment")),
                   raised |-> ""]

late_customers == {"Late (16-30 days)", "Late (31-120 days)", "In Grace Period"}

NoRisk(exception) ==
    [late_loans_percentage |-> NaN, late_loans_num |-> 0,
     projected_loss_if_charged_off |-> NaN, projected_loss_if_full_term |-> NaN,
     raised |-> exception]

at_risk_customers_calculation(d) ==
    IF ~HasColumn(d, "loan_status") THEN NoRisk("KeyError")
    ELSE LET late_loans == RowsWithStatus(d, late_customers)
             late_loans_percentage == PercentageOfInts(Len(late_loans), NRows(d))
         IN  IF late_loans_percentage.raised # ""
             THEN NoRisk(late_loans_percentage.raised)
             ELSE IF \E c \in {"instalment", "term", "total_payment"} : ~HasColumn(d, c)
             THEN NoRisk("KeyError")
             ELSE LET instalment == ColumnOfRows(d, late_loans, "instalment")
                      term == ColumnOfRows(d, late_loans, "term")
                      projected_revenue ==
                          [j \in 1..Len(late_loans) |-> RMul(instalment[j], term[j])]
                      total_paid == ColumnOfRows(d, late_loans, "total_payment")
                  IN  [late_loans_percentage |-> late_loans_percentage.value,
                       late_loans_num |-> Len(late_loans),
                       projected_loss_if_charged_off |->
                           SumSkipNa([j \in 1..Len(late_loans) |->
                                         RSub(projected_revenue[j], total_paid[j])]),
                       projected_loss_if_full_term |->
                           RSub(SumSkipNa(projected_revenue), SumSkipNa(total_paid)),
                       raised |-> ""]

Call_count_nulls ==
    InPlace(df, [NoCall EXCEPT !.name = "count_nulls", !.result = count_nulls(df)])

Call_describe_stats ==
    InPlace(df, [NoCall EXCEPT !.name = "describe_stats", !.result = describe_stats(df)])

Call_losses_calc ==
    LET r == losses_calc(df)
    IN  InPlace(df, [NoCall EXCEPT !.name = "losses_calc", !.result = r,
                                   !.raised = r.raised])

Call_at_risk_customers_calculation ==
    LET r == at_risk_customers_calculation(df)
    IN  InPlace(df, [NoCall EXCEPT !.name = "at_risk_customers_calculation",
                                   !.result = r, !.raised = r.raised])

(***************************************************************************)
(* The tables the profiler and the metrics read: loans with a status, an   *)
(* instalment, a term of 3 months and the total paid.                      *)
(***************************************************************************)
StatusSamples == {Status("Charged Off"), Status("Current"), Status("Late (16-30 days)")}

InstalmentValues == {1, 2}

PaymentValues == {1, 5}

LoanMetricsTable(loan_status, instalment, total_payment) ==
    LET n == Len(loan_status)
    IN  DataFrame(<<"loan_status", "instalment", "term", "total_payment">>,
                  [loan_status |-> "object", instalment |-> "float64",
                   term |-> "int64", total_payment |-> "float64"],
                  [loan_status |-> loan_status, instalment |-> instalment,
                   term |-> Repeat(Num(3), n), total_payment |-> total_payment],
                  Index(n))

IsLoanMetricsTable(d) ==
    \E n \in 0..MaxLoanRows :
        \E loan_status \in SeqsOfLen(StatusSamples, n),
           instalment \in SeqsOfLen(Cells(InstalmentValues), n),
           total_payment \in SeqsOfLen(Cells(PaymentValues), n) :
            d = LoanMetricsTable(loan_status, instalment, total_payment)

InitProfile ==
    /\ IsLoanMetricsTable(df)
    /\ table = df
    /\ same_object = TRUE
    /\ prev = df
    /\ op = NoCall
    /\ NoDriver

NextProfile ==
    \/ Call_count_nulls
    \/ Call_describe_stats
    \/ Call_losses_calc
    \/ Call_at_risk_customers_calculation

SpecProfile == InitProfile /\ [][NextProfile]_vars

(***************************************************************************)
(* Properties of the profiler and the metrics.                             *)
(***************************************************************************)
\* C18: on a table with zero rows the percentages are 0: count_nulls reports
\* a null percentage of 0 for every column, and losses_calc and
\* at_risk_customers_calculation complete with a percentage of 0.
C18_EmptyTablePercentages ==
    NRows(prev) = 0 =>
       /\ op.name = "count_nulls" =>
             \A c \in Range(prev.columns) : op.result[c].percentage = Num(0)
       /\ op.name = "losses_calc" =>
             op.raised = "" /\ op.result.charged_off_percentage = Num(0)
       /\ op.name = "at_risk_customers_calculation" =>
             op.raised = "" /\ op.result.late_loans_percentage = Num(0)

\* Every non-null value of s occurs exactly once.
NoRepeatedValue(s) == \A v \in Range(s) \ {NaN} : Count(s, v) = 1

\* C19 as stated: describe_stats reports for each numeric column the most
\* frequent value as the mode, and None when the column has no repeated
\* value.
C19_ModeNoneWithoutRepeat ==
    op.name = "describe_stats" =>
        \A c \in Range(numeric_columns(prev)) :
            IF NoRepeatedValue(prev.data[c])
            THEN op.result[c].mode = None
            ELSE \E v \in Range(prev.data[c]) :
                    MostFrequent(prev.data[c], v) /\ op.result[c].mode = Some(v)

\* C19 as amended: describe_stats reports for each numeric column the most
\* frequent value as the mode, the smallest one when several values are
\* equally frequent (so the smallest value when no value is repeated), and
\* None only when the column has no non-null value.
C19_DescribeStatsMode ==
    op.name = "describe_stats" =>
        \A c \in Range(numeric_columns(prev)) :
            IF Nulls(prev.data[c]) = Len(prev.data[c])
            THEN op.result[c].mode = None
            ELSE \E v \in Range(prev.data[c]) :
                    MostFrequent(prev.data[c], v) /\ op.result[c].mode = Some(v)

\* Reached by describe_stats on instalments that are all different: the
\* mode reported is the smallest of them.
C19_Witness ==
    /\ op.name = "describe_stats"
    /\ Len(NonNull(prev.data["instalment"])) >= 2
    /\ NoRepeatedValue(prev.data["instalment"])
    /\ \E v \in Range(prev.data["instalment"]) :
          /\ op.result["instalment"].mode = Some(v)
          /\ \A w \in Range(NonNull(prev.data["instalment"])) : RLe(v, w)

\* The late loans of d have no null in instalment, term or total_payment.
LateLoansWithoutNulls(d) ==
    /\ Len(RowsWithStatus(d, late_customers)) >= 1
    /\ \A i \in Range(RowsWithStatus(d, late_customers)) :
          \A c \in {"instalment", "term", "total_payment"} : d.data[c][i] # NaN

\* at_risk_customers_calculation returns two different projected losses on d.
ScenariosDiffer(d) ==
    LET r == at_risk_customers_calculation(d)
    IN  /\ r.raised = ""
        /\ r.projected_loss_if_charged_off # r.projected_loss_if_full_term

\* C22: projected_loss_if_charged_off and projected_loss_if_full_term are
\* two different functions of the table: among the loan tables there is one
\* with late loans, without a null in their instalment, term or
\* total_payment, on which at_risk_customers_calculation returns two
\* different values.
C22_TwoScenarios ==
    Completed("at_risk_customers_calculation") =>
        \E n \in 1..MaxLoanRows :
            \E loan_status \in SeqsOfLen(StatusSamples, n),
               instalment \in SeqsOfLen(Cells(InstalmentValues), n),
               total_payment \in SeqsOfLen(Cells(PaymentValues), n) :
                LET d == LoanMetricsTable(loan_status, instalment, total_payment)
                IN  LateLoansWithoutNulls(d) /\ ScenariosDiffer(d)

\* On every table whose late loans have no null, the call returns the same
\* number twice: the sum of the differences is the difference of the sums.
SameOutcomeWithoutNulls ==
    Completed("at_risk_customers_calculation") /\ LateLoansWithoutNulls(prev) =>
        op.result.projected_loss_if_charged_off = op.result.projected_loss_if_full_term

\* Reached by at_risk_customers_calculation on late loans with a null
\* instalment: only there do the two values differ.
DifferentOutcomeWithNull ==
    /\ Completed("at_risk_customers_calculation")
    /\ op.result.projected_loss_if_charged_off # op.result.projected_loss_if_full_term

(***************************************************************************)
(* The drivers: main() of main.py (with its load_data) and main() of       *)
(* db_utils.py, statement by statement.                                    *)
(***************************************************************************)
\* The attributes each class defines (its def lines), and the two pandas
\* functions the drivers call themselves.
Attributes ==
    [RDSDatabaseConnector |->
         {"__init__", "_load_credentials", "connect_to_database", "create_engine",
          "extract_loan_payments", "save_data", "load_data"},
     DataTransform |->
         {"__init__", "convert_mixed_obj_to_int", "convert_date_object_to_datetime",
          "convert_to_categorical", "apply_transformations"},
     DataFrameInfo |->
         {"__init__", "describe_types", "describe_stats", "count_distinct_values",
          "count_nulls", "percentage_of_zeros"},
     Plotter |->
         {"__init__", "plot_null_values", "plot_distribution", "plot_scatter_plot",
          "plot_correlation_matrix"},
     DataFrameTransform |->
         {"__init__", "drop_nulls_over_threshold", "impute_missing_values",
          "identify_skewed_columns", "transform_column", "find_best_transformation",
          "transform_skewed_columns", "remove_outliers", "identify_highly_correlated",
          "remove_highly_correlated_columns"},
     pandas |-> {"to_csv", "read_csv"}]

\* The class of the object each name of the drivers is bound to.
ClassOf ==
    [RDSDatabaseConnector |-> "RDSDatabaseConnector", connector |-> "RDSDatabaseConnector",
     DataTransform |-> "DataTransform", transformer |-> "DataTransform",
     DataFrameInfo |-> "DataFrameInfo", info |-> "DataFrameInfo",
     Plotter |-> "Plotter", plotter |-> "Plotter",
     DataFrameTransform |-> "DataFrameTransform", dftransform |-> "DataFrameTransform",
     df |-> "pandas", df_reduced |-> "pandas", pd |-> "pandas"]

\* A statement: its line, the name the attribute is looked up on, the
\* attribute called, whether the call is the body of a loop over the numeric
\* columns of df, and the file it names.
Statement(line, receiver, attribute) ==
    [line |-> line, receiver |-> receiver, attribute |-> attribute,
     loop |-> FALSE, file |-> ""]

ForEachNumericColumn(line, receiver, attribute) ==
    [Statement(line, receiver, attribute) EXCEPT !.loop = TRUE]

OnFile(line, receiver, attribute, file) ==
    [Statement(line, receiver, attribute) EXCEPT !.file = file]

\* main.py: load_data() and main()
main_statements ==
    << Statement(15, "RDSDatabaseConnector", "load_credentials"),
       Statement(16, "RDSDatabaseConnector", "__init__"),
       Statement(17, "connector", "extract_loan_payments"),
       Statement(36, "DataFrameInfo", "__init__"),
       Statement(37, "info", "describe_types"),
       Statement(39, "info", "count_nulls"),
       Statement(42, "DataTransform", "__init__"),
       Statement(51, "transformer", "convert_float_to_int"),
       Statement(52, "transformer", "convert_mixed_obj_to_int"),
       Statement(53, "transformer", "convert_date_object_to_datetime"),
       Statement(54, "transformer", "convert_to_categorical"),
       Statement(57, "info", "describe_types"),
       Statement(59, "info", "count_nulls"),
       OnFile(63, "df", "to_csv", "loan_payments_transformed.csv"),
       OnFile(67, "pd", "read_csv", "loan_payments_transformed.csv"),
       Statement(70, "DataFrameInfo", "__init__"),
       Statement(72, "info", "describe_stats"),
       Statement(75, "info", "count_distinct_values"),
       Statement(80, "Plotter", "__init__"),
       Statement(81, "DataFrameTransform", "__init__"),
       Statement(84, "plotter", "plot_null_values"),
       Statement(85, "dftransform", "drop_nulls_over_threshold"),
       Statement(86, "dftransform", "impute_missing_values"),
       Statement(89, "plotter", "plot_null_values"),
       Statement(90, "info", "count_nulls"),
       ForEachNumericColumn(95, "plotter", "plot_distribution"),
       Statement(97, "dftransform", "identify_skewed_columns"),
       Statement(99, "dftransform", "transform_skewed_columns"),
       ForEachNumericColumn(103, "plotter", "plot_distribution"),
       ForEachNumericColumn(108, "plotter", "plot_boxplot"),
       ForEachNumericColumn(111, "dftransform", "remove_outliers"),
       ForEachNumericColumn(115, "plotter", "plot_boxplot"),
       Statement(118, "plotter", "plot_correlation_matrix"),
       Statement(119, "dftransform", "remove_highly_correlated_columns"),
       Statement(124, "plotter", "plot_correlation_matrix"),
       OnFile(127, "df_reduced", "to_csv", "loan_payments_transformed.csv") >>

\* db_utils.py: main()
db_utils_statements ==
    << Statement(132, "RDSDatabaseConnector", "_load_credentials"),
       Statement(133, "RDSDatabaseConnector", "__init__"),
       Statement(134, "connector", "connect_to_database"),
       Statement(135, "connector", "extract_loan_payments"),
       OnFile(136, "connector", "save_data", "loan_payments_data.csv"),
       OnFile(137, "connector", "load_data", "loan_payments_data.csv") >>

Programs == {"main.py", "db_utils.py"}

StatementsOf(program) ==
    IF program = "main.py" THEN main_statements ELSE db_utils_statements

FileNames == {"loan_payments_transformed.csv", "loan_payments_data.csv"}

\* The column lists of main(); the list of dates has next_payment_date,
\* which the list of apply_transformations has not.
main_columns_to_transform_date_object_to_datetime ==
    <<"issue_date", "earliest_credit_line", "last_payment_date", "next_payment_date",
      "last_credit_pull_date">>

\* DataFrame.to_csv(filename, index=False): the header and the cells, row
\* by row, without the index.
to_csv(d) == [written |-> TRUE, content |-> [d EXCEPT !.index = <<>>]]

\* The dtype pd.read_csv infers for a column of a file to_csv wrote: object
\* when the file has no row, float64 for a column of empty fields only, the
\* dtype written for numbers, and object for everything else (categories
\* and dates come back as text).
InferredDtype(content, c) ==
    LET s == content.data[c]
    IN  IF Len(s) = 0 THEN "object"
        ELSE IF \A i \in 1..Len(s) : IsNull(s[i]) THEN "float64"
        ELSE IF content.dtype[c] \in {"float64", "int64"} THEN content.dtype[c]
        ELSE "object"

\* pd.read_csv(filename): a missing file raises FileNotFoundError, a file
\* without a column EmptyDataError; the index is a new RangeIndex.
read_csv(file) ==
    IF ~file.written THEN [df |-> NoTable, raised |-> "FileNotFoundError"]
    ELSE IF Len(file.content.columns) = 0
    THEN [df |-> NoTable, raised |-> "EmptyDataError"]
    ELSE LET content == file.content
             n == Len(content.data[content.columns[1]])
         IN  [df |-> DataFrame(content.columns,
                               [c \in Range(content.columns) |-> InferredDtype(content, c)],
                               content.data, Index(n)),
              raised |-> ""]

\* for col in df.select_dtypes(include=['number']).columns:
\*     dftransform.remove_outliers(col)
\* from the i-th column on; e is the effect of the iterations before.  The
\* columns are those of the driver's df; a call that filters rows binds
\* self.df to a new object, and the driver's df is left as it is.
RECURSIVE RemoveOutliersFrom(_, _, _)
RemoveOutliersFrom(e, columns, i) ==
    IF i > Len(columns) \/ e.raised # "" THEN e
    ELSE LET r == remove_outliers(e.df, columns[i])
         IN  RemoveOutliersFrom(
                 [e EXCEPT !.df = r.df,
                           !.same_object = e.same_object /\ ~r.rebound,
                           !.raised = r.raised],
                 columns, i + 1)

\* The state with self.df changed in place to new.
ChangedInPlace(e, new, raised) ==
    [e EXCEPT !.df = new,
              !.table = IF e.same_object THEN new ELSE e.table,
              !.raised = raised]

\* What the call of a statement does to the DataFrame of the object
\* (self.df), to the DataFrame the driver holds (df), to the files, and the
\* exception it raises.  The profiler and the plots read the table only.
Effect(program, stmt) ==
    LET e == [df |-> df, table |-> table, same_object |-> same_object,
              files |-> files, raised |-> "", result |-> <<>>]
        a == stmt.attribute
    IN  CASE a = "extract_loan_payments" ->
                 [e EXCEPT !.df = loan_payments, !.table = loan_payments,
                           !.same_object = TRUE]
          [] a = "save_data" ->
                 [e EXCEPT !.files[stmt.file] = to_csv(table)]
          [] a = "to_csv" ->
                 [e EXCEPT !.files[stmt.file] =
                               to_csv(IF stmt.receiver = "df_reduced" THEN df ELSE table)]
          [] a = "load_data" ->
                 LET r == read_csv(files[stmt.file])
                 IN  [e EXCEPT !.result = r.df, !.raised = r.raised]
          [] a = "read_csv" ->
                 LET r == read_csv(files[stmt.file])
                 IN  IF r.raised # "" THEN [e EXCEPT !.raised = r.raised]
                     ELSE [e EXCEPT !.df = r.df, !.table = r.df, !.same_object = TRUE]
          [] a = "convert_mixed_obj_to_int" ->
                 LET r == convert_mixed_obj_to_int(df, columns_to_transform_mixed_obj_to_int)
                 IN  ChangedInPlace(e, r.df, r.raised)
          [] a = "convert_date_object_to_datetime" ->
                 LET r == convert_date_object_to_datetime(
                              df, main_columns_to_transform_date_object_to_datetime)
                 IN  ChangedInPlace(e, r.df, r.raised)
          [] a = "convert_to_categorical" ->
                 LET r == convert_to_categorical(df, columns_to_transform_to_categorical)
                 IN  ChangedInPlace(e, r.df, r.raised)
          [] a = "drop_nulls_over_threshold" ->
                 ChangedInPlace(e, drop_nulls_over_threshold(df, 50), "")
          [] a = "impute_missing_values" ->
                 LET r == impute_missing_values(df)
                 IN  ChangedInPlace(e, r.df, r.raised)
          [] a = "transform_skewed_columns" ->
                 LET r == transform_skewed_columns(df, 1)
                 IN  ChangedInPlace(e, r.df, r.raised)
          [] a = "remove_outliers" ->
                 RemoveOutliersFrom(e, numeric_columns(table), 1)
          [] a = "remove_highly_correlated_columns" ->
                 ChangedInPlace(e, remove_highly_correlated_columns(df, <<9, 10>>).df, "")
          [] OTHER -> e

\* The next statement of the running driver.  Looking up an attribute the
\* class does not define raises AttributeError; the body of a loop over no
\* column looks nothing up.  An exception, raised by the lookup or by the
\* call, is caught nowhere: it ends the driver at that statement.
Run(program) ==
    /\ pc.program = program
    /\ pc.at <= Len(StatementsOf(program))
    /\ op.raised = ""
    /\ \E stmt \in {StatementsOf(program)[pc.at]} :
       \E runs \in {~stmt.loop \/ Len(numeric_columns(table)) > 0} :
       \E defined \in {stmt.attribute \in Attributes[ClassOf[stmt.receiver]]} :
       \E e \in {IF runs /\ defined THEN Effect(program, stmt)
                 ELSE [df |-> df, table |-> table, same_object |-> same_object,
                       files |-> files,
                       raised |-> IF runs THEN "AttributeError" ELSE "",
                       result |-> <<>>]} :
           /\ df' = e.df
           /\ table' = e.table
           /\ same_object' = e.same_object
           /\ files' = e.files
           /\ prev' = df
           /\ op' = [NoCall EXCEPT !.name = stmt.attribute, !.raised = e.raised,
                                   !.result = e.result]
           /\ pc' = [pc EXCEPT !.at = IF e.raised = "" THEN @ + 1 ELSE @]
           /\ UNCHANGED loan_payments

main == Run("main.py")

db_utils_main == Run("db_utils.py")

(***************************************************************************)
(* The runs of the drivers: either driver, started on a database whose     *)
(* table loan_payments is any of the session tables, with no file written. *)
(***************************************************************************)
InitMain ==
    /\ pc \in {[program |-> p, at |-> 1] : p \in Programs}
    /\ IsSessionTable(loan_payments)
    /\ files = [name \in FileNames |-> NoFile]
    /\ df = NoTable
    /\ table = NoTable
    /\ same_object = TRUE
    /\ prev = NoTable
    /\ op = NoCall

NextMain ==
    \/ main
    \/ db_utils_main

\* A driver that can take a step takes it.
SpecMain == InitMain /\ [][NextMain]_vars /\ WF_vars(NextMain)

(***************************************************************************)
(* Properties of the drivers.                                              *)
(***************************************************************************)
\* The driver has run all its statements.
Finished(program) ==
    pc.program = program /\ pc.at = Len(StatementsOf(program)) + 1

\* C23: when the database and the files are reachable, main() runs its
\* stages in order and eventually reaches the final save of the reduced
\* table: every method it calls is defined by the class it is called on,
\* and no stage aborts the pipeline before the final checkpoint.
C23_MainReachesFinalSave ==
    (pc.program = "main.py") ~>
        /\ Finished("main.py")
        /\ files["loan_payments_transformed.csv"].written

\* main() of db_utils.py, whose calls are all defined, reaches its end with
\* loan_payments_data.csv written and read back.
DbUtilsMainReachesEnd ==
    (pc.program = "db_utils.py") ~>
        /\ Finished("db_utils.py")
        /\ files["loan_payments_data.csv"].written
        /\ op.name = "load_data" /\ op.raised = ""

\* main() stops at its first statement: the class defines _load_credentials,
\* not load_credentials.
MainStopsAtLoadCredentials ==
    pc.program = "main.py" /\ op.name # "init" =>
        /\ pc.at = 1
        /\ op.name = "load_credentials" /\ op.raised = "AttributeError"
        /\ df = NoTable
====
